---- MODULE Spec2Model ----
(***************************************************************************)
(* Gear-Genix: the equipment booking engine (core/booking_engine.py) over  *)
(* the equipment and bookings tables (db/models.py), as a state machine.   *)
(*                                                                         *)
(* Spec      the engine's operations executed one at a time (each handler  *)
(*           runs to completion before the next starts).                   *)
(* SpecConc  the same operations issued by concurrent sessions, each       *)
(*           handler split at its storage statements (SELECT, flush,       *)
(*           COMMIT) under PostgreSQL's default READ COMMITTED isolation.  *)
(* SpecFault the statements of one session's calls, each of which may      *)
(*           raise.                                                        *)
(* SpecBridge calls of ToolExecutor.execute (agent/tool_executor.py).      *)
(* SpecAgent  one turn of EquipmentBookingAgent.chat (agent/agent.py)      *)
(*           against a model stub; SpecAgentLive adds fairness.            *)
(* SpecChat  the transports (bot/telegram_bot.py, api/main.py): turns of   *)
(*           different sessions in flight together, and /clear.            *)
(*                                                                         *)
(* Dates and times: one calendar date; a time-of-day text "HH:MM" is       *)
(* modelled as the one-element tuple <<h>> of its hour and a text that     *)
(* strptime rejects as the empty tuple <<>>; a parsed datetime is the      *)
(* hour h.                                                                 *)
(***************************************************************************)
EXTENDS Integers, Sequences, FiniteSets, TLC

VARIABLES
  equipment,   \* committed rows of table "equipment": id -> row
  bookings,    \* committed rows of table "bookings": sequence, primary key = index
  last,        \* the last completed engine call: its handler and the kind of its outcome
  tx,          \* per session: the in-flight SQLAlchemy session (position and locals)
  started,     \* number of engine calls started by concurrent sessions
  memory,      \* ConversationMemory: session id -> its ordered entries
  turn         \* per session: the call of EquipmentBookingAgent.chat (position and locals)

vars == <<equipment, bookings, last, tx, started, memory, turn>>

(***************************************************************************)
(* Bounds of the model.                                                    *)
(***************************************************************************)
MaxBookings == 2      \* at most this many rows in table "bookings"
MaxCalls == 3         \* at most this many engine calls started by the sessions of SpecConc

(***************************************************************************)
(* Input domains.                                                          *)
(***************************************************************************)
Sessions == {"s1", "s2"}

VALID_DATE == <<2025, 3, 15>>
BAD_TEXT == <<>>

\* the hours of the day offered as slot bounds
Hours == {0, 1, 2}

\* (date, start_time, end_time) triples offered to the engine: every interval of
\* hours on the valid date, one empty and one reversed interval, one malformed
\* date and one malformed time.
SlotArgs ==
  {<<VALID_DATE, <<p[1]>>, <<p[2]>> >> : p \in {q \in Hours \X Hours : q[1] < q[2]}}
    \cup {<<VALID_DATE, <<1>>, <<1>> >>, <<VALID_DATE, <<1>>, <<0>> >>}
    \cup {<<BAD_TEXT, <<0>>, <<1>> >>, <<VALID_DATE, <<0>>, BAD_TEXT>>}

\* who books: the club holding a slot is fixed by the hour the slot starts at, so
\* that reservations starting at different hours have different holders
Requesters ==
  << [club_name |-> "Robotics Club", booked_by |-> "Raj", telegram_username |-> "@raj123"],
     [club_name |-> "Drama Club", booked_by |-> "Mia", telegram_username |-> "@mia"] >>

RequesterOf(start_time) ==
  IF Len(start_time) = 1 THEN Requesters[(start_time[1] % 2) + 1] ELSE Requesters[1]

EquipmentNameArgs == {"microphone", "DSLR Camera", "Drone"}

\* str.lower() on the equipment names of the model
lower(s) ==
  CASE s = "Microphone" -> "microphone"
    [] s = "DSLR Camera" -> "dslr camera"
    [] s = "Drone" -> "drone"
    [] OTHER -> s

\* the rows db/seed.py inserts (two of the eight, one multi-unit and one single-unit)
SEED_EQUIPMENT ==
  << [name |-> "Microphone", total_quantity |-> 3, condition |-> "good"],
     [name |-> "DSLR Camera", total_quantity |-> 1, condition |-> "good"] >>

seed_equipment ==
  [i \in DOMAIN SEED_EQUIPMENT |->
     [name |-> SEED_EQUIPMENT[i].name,
      total_quantity |-> SEED_EQUIPMENT[i].total_quantity,
      available_quantity |-> SEED_EQUIPMENT[i].total_quantity,
      condition |-> SEED_EQUIPMENT[i].condition]]

(***************************************************************************)
(* Booking identifiers: the text "B" followed by decimal digits, modelled  *)
(* as a sequence of one-character strings.                                 *)
(***************************************************************************)
DigitChars == <<"0", "1", "2", "3", "4", "5", "6", "7", "8", "9">>

DigitChar(d) == DigitChars[d + 1]

IsDigitChar(c) == \E d \in 0..9 : DigitChars[d + 1] = c

DigitValue(c) == CHOOSE d \in 0..9 : DigitChars[d + 1] = c

RECURSIVE Decimal(_)
\* str(n) for n >= 0
Decimal(n) == IF n < 10 THEN <<DigitChar(n)>> ELSE Decimal(n \div 10) \o <<DigitChar(n % 10)>>

RECURSIVE ZeroPad(_, _)
ZeroPad(s, width) == IF Len(s) >= width THEN s ELSE ZeroPad(<<"0">> \o s, width)

\* f"B{n:03d}"
FormatBookingId(n) == <<"B">> \o ZeroPad(Decimal(n), 3)

RECURSIVE DecimalValue(_)
DecimalValue(s) ==
  IF Len(s) = 0 THEN 0
  ELSE 10 * DecimalValue(SubSeq(s, 1, Len(s) - 1)) + DigitValue(s[Len(s)])

\* int(bid[1:]): the value, or -1 where int() raises ValueError
ParseBookingNumber(bid) ==
  LET digits == IF Len(bid) = 0 THEN <<>> ELSE Tail(bid)
  IN IF Len(digits) > 0 /\ \A i \in DOMAIN digits : IsDigitChar(digits[i])
     THEN DecimalValue(digits)
     ELSE -1

RECURSIVE MaxOf(_)
MaxOf(S) == IF S = {} THEN 0 ELSE LET x == CHOOSE y \in S : TRUE
                                      m == MaxOf(S \ {x})
                                  IN IF x > m THEN x ELSE m

\* variant: max_num starts at 1
generate_booking_id_from_one(bks) ==
  LET all_ids == {bks[i].booking_id : i \in DOMAIN bks}
      nums == {ParseBookingNumber(bid) : bid \in all_ids}
      max_num == MaxOf({n \in nums : n > 1} \cup {1})
  IN FormatBookingId(max_num + 1)

generate_booking_id(bks) ==
  LET all_ids == {bks[i].booking_id : i \in DOMAIN bks}
      nums == {ParseBookingNumber(bid) : bid \in all_ids}
      max_num == MaxOf({n \in nums : n > 0})
  IN FormatBookingId(max_num + 1)

\* str.upper() on an identifier text
upper(bid) == [i \in DOMAIN bid |-> IF bid[i] = "b" THEN "B" ELSE bid[i]]

(***************************************************************************)
(* Date / time helpers.                                                    *)
(***************************************************************************)
\* datetime.strptime: ok is FALSE where it raises ValueError
parse_slot(date, start_time, end_time) ==
  IF date = VALID_DATE /\ Len(start_time) = 1 /\ Len(end_time) = 1
  THEN [ok |-> TRUE, start_dt |-> start_time[1], end_dt |-> end_time[1]]
  ELSE [ok |-> FALSE, start_dt |-> 0, end_dt |-> 0]

\* variant: an empty interval passes
InvalidIntervalStrict(start_dt, end_dt) == end_dt < start_dt

\* end_dt <= start_dt
InvalidInterval(start_dt, end_dt) == end_dt <= start_dt

(***************************************************************************)
(* Queries of the engine, over the rows a statement sees.                  *)
(***************************************************************************)
\* variant: a name that matches no row selects the first row
FindEquipmentOrFirst(eq, equipment_name) ==
  LET hits == {i \in DOMAIN eq : lower(eq[i].name) = lower(equipment_name)}
  IN IF hits = {} THEN 1 ELSE CHOOSE i \in hits : TRUE

\* select(Equipment).where(func.lower(Equipment.name) == equipment_name.lower())
\* .scalar_one_or_none(): the id of the row, 0 for None (names are unique)
FindEquipment(eq, equipment_name) ==
  LET hits == {i \in DOMAIN eq : lower(eq[i].name) = lower(equipment_name)}
  IN IF hits = {} THEN 0 ELSE CHOOSE i \in hits : TRUE

\* variant: the second comparison is made against the end of the requested slot
OverlapsEndOnly(b, start_dt, end_dt) == b.start_time < end_dt /\ b.end_time > end_dt

\* variant: the comparisons admit equality
OverlapsClosed(b, start_dt, end_dt) == b.start_time <= end_dt /\ b.end_time >= start_dt

\* Booking.start_time < end_dt AND Booking.end_time > start_dt
Overlaps(b, start_dt, end_dt) == b.start_time < end_dt /\ b.end_time > start_dt

\* Booking.status == "active"
IsActive(b) == b.status = "active"

\* variant: the conflict query is skipped
ConflictQueryTrusting(bks, equipment_id, start_dt, end_dt) == {}

\* the conflict query of check_availability and make_booking: primary keys of the rows
ConflictQuery(bks, equipment_id, start_dt, end_dt) ==
  {i \in DOMAIN bks :
     /\ bks[i].equipment_id = equipment_id
     /\ IsActive(bks[i])
     /\ Overlaps(bks[i], start_dt, end_dt)}

\* variant: no ORDER BY, the rows come in primary-key order
FirstByKey(bks, rows) == CHOOSE i \in rows : \A j \in rows : i <= j

\* .order_by(Booking.start_time.asc()) then conflicts[0]; rows of equal start_time
\* (none exist while active rows of a resource are disjoint) in primary-key order
FirstByStart(bks, rows) ==
  CHOOSE i \in rows :
    \A j \in rows : \/ bks[i].start_time < bks[j].start_time
                    \/ (bks[i].start_time = bks[j].start_time /\ i <= j)

\* max(conflicts, key=lambda b: b.end_time).end_time
LastEnd(bks, rows) == MaxOf({bks[i].end_time : i \in rows})

\* variant: the test is "< 0"
NoUnitsLeftBelowZero(row) == row.available_quantity < 0

\* equipment.available_quantity <= 0
NoUnitsLeft(row) == row.available_quantity <= 0

\* variant: an identifier that matches no row selects the first row
FindBookingOrFirst(bks, booking_id) ==
  LET hits == {i \in DOMAIN bks : upper(bks[i].booking_id) = upper(booking_id)}
  IN IF hits = {} THEN (IF bks = <<>> THEN 0 ELSE 1) ELSE CHOOSE i \in hits : TRUE

\* select(Booking).where(func.upper(Booking.booking_id) == booking_id.upper())
\* .scalar_one_or_none(): the primary key, 0 for None (booking_id is unique)
FindBooking(bks, booking_id) ==
  LET hits == {i \in DOMAIN bks : upper(bks[i].booking_id) = upper(booking_id)}
  IN IF hits = {} THEN 0 ELSE CHOOSE i \in hits : TRUE

(***************************************************************************)
(* Writes of the engine.                                                   *)
(***************************************************************************)
\* variant: the column has no unique index
UniqueViolationUnindexed(bks, booking_id) == FALSE

\* the unique index on bookings.booking_id rejects the INSERT
UniqueViolation(bks, booking_id) == \E i \in DOMAIN bks : bks[i].booking_id = booking_id

\* Booking(...) with status="active"
NewBooking(booking_id, equipment_id, a, start_dt, end_dt) ==
  [booking_id |-> booking_id,
   equipment_id |-> equipment_id,
   club_name |-> a.club_name,
   booked_by |-> a.booked_by,
   telegram_username |-> a.telegram_username,
   start_time |-> start_dt,
   end_time |-> end_dt,
   status |-> "active"]

\* UPDATE equipment SET available_quantity = v WHERE id = equipment_id
SetAvailable(eq, equipment_id, v) ==
  [eq EXCEPT ![equipment_id].available_quantity = v]

\* variant: the UPDATE reaches every booking of the same equipment
SetStatusOfResource(bks, pk, s) ==
  [i \in DOMAIN bks |->
     IF bks[i].equipment_id = bks[pk].equipment_id THEN [bks[i] EXCEPT !.status = s]
     ELSE bks[i]]

\* UPDATE bookings SET status = s WHERE id = pk
SetStatus(bks, pk, s) == [bks EXCEPT ![pk].status = s]

\* equipment.available_quantity -= 1, as computed from the row the session loaded
Decremented(available_quantity) == available_quantity - 1

\* equipment.available_quantity += 1, as computed from the row the session loaded
Incremented(available_quantity) == available_quantity + 1

\* variant: only a cancelled booking is refused
NotActiveOnlyCancelled(b) == b.status = "cancelled"

\* booking.status != "active": the call is refused
NotActive(b) == b.status # "active"

(***************************************************************************)
(* The engine's handlers run to completion on the committed rows: each     *)
(* yields the rows it leaves committed and the outcome its text reports.   *)
(***************************************************************************)
\* variant: a handler that returns also holds a unit of the first equipment row
OutcomeHoldingUnit(eq, bks, r) ==
  [equipment |-> IF eq[1].available_quantity > 0
                   THEN [eq EXCEPT ![1].available_quantity = @ - 1] ELSE eq,
   bookings |-> bks, result |-> r]

Outcome(eq, bks, r) == [equipment |-> eq, bookings |-> bks, result |-> r]

\* variant: the unit is taken (and committed) before the checks that refuse the call
RefusedAfterWrite(eq, bks, equipment_id, r) ==
  Outcome(SetAvailable(eq, equipment_id, Decremented(eq[equipment_id].available_quantity)),
          bks, r)

\* make_booking returns from inside "with get_session()" before any write:
\* nothing was flushed, session.close() ends the transaction
Refused(eq, bks, equipment_id, r) == Outcome(eq, bks, r)

\* variant: availability is judged by the conflicting rows alone
check_availability_by_conflicts(eq, bks, a) ==
  LET slot == parse_slot(a.date, a.start_time, a.end_time)
      equipment_id == FindEquipment(eq, a.equipment_name)
      conflicts == ConflictQuery(bks, equipment_id, slot.start_dt, slot.end_dt)
  IN IF ~slot.ok THEN Outcome(eq, bks, [kind |-> "invalid_format"])
     ELSE IF InvalidInterval(slot.start_dt, slot.end_dt)
       THEN Outcome(eq, bks, [kind |-> "invalid_interval"])
     ELSE IF equipment_id = 0
       THEN Outcome(eq, bks, [kind |-> "not_found", name |-> a.equipment_name])
     ELSE IF conflicts = {}
       THEN Outcome(eq, bks, [kind |-> "available", name |-> eq[equipment_id].name,
                              from |-> slot.start_dt, to |-> slot.end_dt])
     ELSE LET conflict == bks[FirstByStart(bks, conflicts)]
          IN Outcome(eq, bks, [kind |-> "booked", name |-> eq[equipment_id].name,
                               from |-> conflict.start_time, to |-> conflict.end_time,
                               by |-> conflict.club_name,
                               next |-> LastEnd(bks, conflicts)])

check_availability(eq, bks, a) ==
  LET slot == parse_slot(a.date, a.start_time, a.end_time)
      equipment_id == FindEquipment(eq, a.equipment_name)
      conflicts == ConflictQuery(bks, equipment_id, slot.start_dt, slot.end_dt)
  IN IF ~slot.ok THEN Outcome(eq, bks, [kind |-> "invalid_format"])
     ELSE IF InvalidInterval(slot.start_dt, slot.end_dt)
       THEN Outcome(eq, bks, [kind |-> "invalid_interval"])
     ELSE IF equipment_id = 0
       THEN Outcome(eq, bks, [kind |-> "not_found", name |-> a.equipment_name])
     ELSE IF NoUnitsLeft(eq[equipment_id]) /\ conflicts = {}
       THEN Outcome(eq, bks, [kind |-> "all_checked_out", name |-> eq[equipment_id].name])
     ELSE IF conflicts = {}
       THEN Outcome(eq, bks, [kind |-> "available", name |-> eq[equipment_id].name,
                              from |-> slot.start_dt, to |-> slot.end_dt])
     ELSE LET conflict == bks[FirstByStart(bks, conflicts)]
          IN Outcome(eq, bks, [kind |-> "booked", name |-> eq[equipment_id].name,
                               from |-> conflict.start_time, to |-> conflict.end_time,
                               by |-> conflict.club_name,
                               next |-> LastEnd(bks, conflicts)])

make_booking(eq, bks, a) ==
  LET slot == parse_slot(a.date, a.start_time, a.end_time)
      equipment_id == FindEquipment(eq, a.equipment_name)
      conflicts == ConflictQuery(bks, equipment_id, slot.start_dt, slot.end_dt)
      booking_id == generate_booking_id(bks)
  IN IF ~slot.ok THEN Outcome(eq, bks, [kind |-> "invalid_format"])
     ELSE IF InvalidInterval(slot.start_dt, slot.end_dt)
       THEN Outcome(eq, bks, [kind |-> "invalid_interval"])
     ELSE IF equipment_id = 0
       THEN Outcome(eq, bks, [kind |-> "not_found", name |-> a.equipment_name])
     ELSE IF NoUnitsLeft(eq[equipment_id])
       THEN Refused(eq, bks, equipment_id,
                    [kind |-> "all_checked_out", name |-> eq[equipment_id].name])
     ELSE IF Cardinality(conflicts) > 1
       \* scalar_one_or_none() raises MultipleResultsFound: except, rollback
       THEN Refused(eq, bks, equipment_id, [kind |-> "internal_error"])
     ELSE IF Cardinality(conflicts) = 1
       THEN LET conflict == bks[CHOOSE i \in conflicts : TRUE]
            IN Refused(eq, bks, equipment_id,
                       [kind |-> "already_booked", name |-> eq[equipment_id].name,
                        from |-> conflict.start_time, to |-> conflict.end_time,
                        by |-> conflict.club_name])
     ELSE IF UniqueViolation(bks, booking_id)
       \* the flush raises IntegrityError: except, rollback
       THEN Refused(eq, bks, equipment_id, [kind |-> "internal_error"])
     ELSE Outcome(
            SetAvailable(eq, equipment_id, Decremented(eq[equipment_id].available_quantity)),
            Append(bks, NewBooking(booking_id, equipment_id, a, slot.start_dt, slot.end_dt)),
            [kind |-> "confirmed", name |-> eq[equipment_id].name,
             club_name |-> a.club_name, from |-> slot.start_dt, to |-> slot.end_dt,
             booking_id |-> booking_id, booked_by |-> a.booked_by,
             telegram_username |-> a.telegram_username])

\* the rows in the order of a sequence-valued key: ORDER BY ... ASC, rows of equal
\* key in primary-key order
RECURSIVE SortedBy(_, _)
SortedBy(rows, key) ==
  IF rows = {} THEN <<>>
  ELSE LET first == CHOOSE i \in rows :
                      \A j \in rows : key[i] < key[j] \/ (key[i] = key[j] /\ i <= j)
       IN <<first>> \o SortedBy(rows \ {first}, key)

\* the alphabetical rank of an equipment name (Equipment.name.asc())
NameRank(name) ==
  CASE name = "DSLR Camera" -> 1
    [] name = "Microphone" -> 2
    [] OTHER -> 3

\* variant: the listing writes every available count back as the total
list_equipment_restocking(eq, bks) ==
  Outcome([i \in DOMAIN eq |-> [eq[i] EXCEPT !.available_quantity = eq[i].total_quantity]],
          bks, [kind |-> "equipment_list"])

list_equipment(eq, bks) ==
  IF DOMAIN eq = {} THEN Outcome(eq, bks, [kind |-> "no_equipment"])
  ELSE LET order == SortedBy(DOMAIN eq, [i \in DOMAIN eq |-> NameRank(eq[i].name)])
       IN Outcome(eq, bks,
                  [kind |-> "equipment_list",
                   lines |-> [k \in DOMAIN order |->
                                [name |-> eq[order[k]].name,
                                 available_quantity |-> eq[order[k]].available_quantity,
                                 total_quantity |-> eq[order[k]].total_quantity,
                                 condition |-> eq[order[k]].condition]]])

\* Booking.club_name.ilike(f"%{club_name}%") on the club names of the model
ilike(stored, club_name) ==
  CASE club_name = "" -> TRUE
    [] club_name = "club" -> stored \in {"Robotics Club", "Drama Club"}
    [] club_name = "robotics" -> stored = "Robotics Club"
    [] OTHER -> FALSE

\* the active rows a listing shows: ORDER BY start_time ASC
ListedOrder(bks, rows) == SortedBy(rows, [i \in rows |-> bks[i].start_time])

\* one line per booking: identifier, equipment name and the interval
get_bookings(eq, bks, club_name) ==
  LET rows == {i \in DOMAIN bks : ilike(bks[i].club_name, club_name) /\ IsActive(bks[i])}
      order == ListedOrder(bks, rows)
  IN IF rows = {} THEN Outcome(eq, bks, [kind |-> "no_bookings", club_name |-> club_name])
     ELSE Outcome(eq, bks,
                  [kind |-> "bookings", club_name |-> club_name,
                   lines |-> [k \in DOMAIN order |->
                                [booking_id |-> bks[order[k]].booking_id,
                                 name |-> eq[bks[order[k]].equipment_id].name,
                                 from |-> bks[order[k]].start_time,
                                 to |-> bks[order[k]].end_time]]])

\* one line per booking: identifier, equipment name, club, requester and the interval
get_active_bookings(eq, bks) ==
  LET rows == {i \in DOMAIN bks : IsActive(bks[i])}
      order == ListedOrder(bks, rows)
  IN IF rows = {} THEN Outcome(eq, bks, [kind |-> "no_active_bookings"])
     ELSE Outcome(eq, bks,
                  [kind |-> "active_bookings",
                   lines |-> [k \in DOMAIN order |->
                                [booking_id |-> bks[order[k]].booking_id,
                                 name |-> eq[bks[order[k]].equipment_id].name,
                                 club_name |-> bks[order[k]].club_name,
                                 booked_by |-> bks[order[k]].booked_by,
                                 from |-> bks[order[k]].start_time,
                                 to |-> bks[order[k]].end_time]]])

\* cancel_booking (new_status "cancelled") and return_equipment (new_status
\* "returned"): the two handlers differ in the status they set and in their texts
Release(eq, bks, booking_id, new_status) ==
  LET pk == FindBooking(bks, booking_id)
  IN IF pk = 0 THEN Outcome(eq, bks, [kind |-> "booking_not_found", booking_id |-> booking_id])
     ELSE IF NotActive(bks[pk])
       THEN Outcome(eq, bks, [kind |-> "already", booking_id |-> booking_id,
                              status |-> bks[pk].status])
     ELSE LET equipment_id == bks[pk].equipment_id
          IN Outcome(
               SetAvailable(eq, equipment_id, Incremented(eq[equipment_id].available_quantity)),
               SetStatus(bks, pk, new_status),
               [kind |-> new_status, booking_id |-> booking_id,
                name |-> eq[equipment_id].name])

cancel_booking(eq, bks, booking_id) == Release(eq, bks, booking_id, "cancelled")

return_equipment(eq, bks, booking_id) == Release(eq, bks, booking_id, "returned")

(***************************************************************************)
(* Arguments offered to the handlers.                                      *)
(***************************************************************************)
\* every known resource with every slot, and the unknown resource with one valid
\* slot, one reversed slot and one malformed slot
SlotArgRecords ==
  {[equipment_name |-> n, date |-> sl[1], start_time |-> sl[2], end_time |-> sl[3]] :
     n \in EquipmentNameArgs \ {"Drone"}, sl \in SlotArgs}
  \cup
  {[equipment_name |-> "Drone", date |-> sl[1], start_time |-> sl[2], end_time |-> sl[3]] :
     sl \in {<<VALID_DATE, <<0>>, <<1>> >>, <<VALID_DATE, <<1>>, <<0>> >>,
             <<BAD_TEXT, <<0>>, <<1>> >>}}

BookingArgRecords ==
  {[equipment_name |-> a.equipment_name, date |-> a.date,
    start_time |-> a.start_time, end_time |-> a.end_time,
    club_name |-> RequesterOf(a.start_time).club_name,
    booked_by |-> RequesterOf(a.start_time).booked_by,
    telegram_username |-> RequesterOf(a.start_time).telegram_username] :
     a \in SlotArgRecords}

\* club names a caller may ask about: a part of one name, a part of both, an
\* unknown club, and the empty text
ClubNameArgs == {"robotics", "club", "chess", ""}

\* identifiers a caller may name: those assignable within the bound, one beyond,
\* and the first in lower case
BookingIdArgs ==
  {FormatBookingId(n) : n \in 1..(MaxBookings + 1)} \cup {<<"b", "0", "0", "1">>}

\* a session with no engine call in flight
NoCall ==
  [pc |-> "idle", op |-> "none", a |-> <<>>, new_status |-> "none", equipment_id |-> 0,
   loaded |-> 0, pk |-> 0, booking_id |-> <<>>, result |-> "none"]

IdleTx == [s \in Sessions |-> NoCall]

\* ConversationMemory before any message: no session has an entry
NoMemory == [s \in Sessions |-> <<>>]

\* a session in which chat() has not been called
NoTurn ==
  [pc |-> "idle", user_message |-> "", iteration |-> 0, tool_calls |-> <<>>, k |-> 0,
   response |-> "none", reply |-> "none", model_calls |-> 0, executed |-> 0]

(***************************************************************************)
(* Spec: the handlers executed one at a time.                              *)
(***************************************************************************)
Init ==
  /\ equipment = seed_equipment
  /\ bookings = <<>>
  /\ last = [op |-> "none", result |-> "none"]
  /\ tx = IdleTx
  /\ started = 0
  /\ memory = NoMemory
  /\ turn = [s \in Sessions |-> NoTurn]

ListEquipment ==
  LET out == list_equipment(equipment, bookings) IN
    /\ equipment' = out.equipment
    /\ bookings' = out.bookings
    /\ last' = [op |-> "list_equipment", result |-> out.result.kind]
    /\ UNCHANGED <<tx, started, memory, turn>>

CheckAvailability ==
  \E a \in SlotArgRecords :
    LET out == check_availability(equipment, bookings, a) IN
      /\ equipment' = out.equipment
      /\ bookings' = out.bookings
      /\ last' = [op |-> "check_availability", result |-> out.result.kind]
      /\ UNCHANGED <<tx, started, memory, turn>>

MakeBooking ==
  \E a \in BookingArgRecords :
    LET out == make_booking(equipment, bookings, a) IN
      /\ Len(out.bookings) <= MaxBookings
      /\ equipment' = out.equipment
      /\ bookings' = out.bookings
      /\ last' = [op |-> "make_booking", result |-> out.result.kind]
      /\ UNCHANGED <<tx, started, memory, turn>>

GetBookings ==
  \E club_name \in ClubNameArgs :
    LET out == get_bookings(equipment, bookings, club_name) IN
      /\ equipment' = out.equipment
      /\ bookings' = out.bookings
      /\ last' = [op |-> "get_bookings", result |-> out.result.kind]
      /\ UNCHANGED <<tx, started, memory, turn>>

CancelBooking ==
  \E booking_id \in BookingIdArgs :
    LET out == cancel_booking(equipment, bookings, booking_id) IN
      /\ equipment' = out.equipment
      /\ bookings' = out.bookings
      /\ last' = [op |-> "cancel_booking", result |-> out.result.kind]
      /\ UNCHANGED <<tx, started, memory, turn>>

ReturnEquipment ==
  \E booking_id \in BookingIdArgs :
    LET out == return_equipment(equipment, bookings, booking_id) IN
      /\ equipment' = out.equipment
      /\ bookings' = out.bookings
      /\ last' = [op |-> "return_equipment", result |-> out.result.kind]
      /\ UNCHANGED <<tx, started, memory, turn>>

GetActiveBookings ==
  LET out == get_active_bookings(equipment, bookings) IN
    /\ equipment' = out.equipment
    /\ bookings' = out.bookings
    /\ last' = [op |-> "get_active_bookings", result |-> out.result.kind]
    /\ UNCHANGED <<tx, started, memory, turn>>

Next ==
  \/ ListEquipment
  \/ CheckAvailability
  \/ MakeBooking
  \/ GetBookings
  \/ CancelBooking
  \/ ReturnEquipment
  \/ GetActiveBookings

Spec == Init /\ [][Next]_vars

(***************************************************************************)
(* SpecConc: the handlers called by concurrent sessions (api/main.py and   *)
(* bot/telegram_bot.py run agent.chat on worker threads).  Every handler   *)
(* opens its own SQLAlchemy session (get_session); each SELECT reads the   *)
(* rows committed at that moment (READ COMMITTED), session.commit()        *)
(* flushes the INSERT / UPDATE statements, which wait for the row and      *)
(* unique-index locks of other uncommitted sessions, and then commits      *)
(* them in one step.  A session's loaded attribute values are not          *)
(* refreshed: the UPDATE writes the value computed from the loaded row.    *)
(***************************************************************************)
\* arguments the concurrent sessions use: both resources, every valid slot, one
\* reversed slot; the identifiers of the first two reservations
ConcBookingArgs ==
  {a \in BookingArgRecords :
     /\ a.equipment_name # "Drone"
     /\ a.date = VALID_DATE
     /\ Len(a.end_time) = 1
     /\ (a.start_time[1] < a.end_time[1]
           \/ (a.equipment_name = "microphone" /\ a.start_time = <<1>> /\ a.end_time = <<0>>))}

ConcIdArgs == {FormatBookingId(n) : n \in 1..2}

InFlight(t) == t.pc \notin {"idle", "done"}

\* the handler returns: the session is closed (get_session's finally)
Finish(s, result) ==
  tx' = [tx EXCEPT ![s] = [@ EXCEPT !.pc = "done", !.result = result]]

\* make_booking up to its first statement: _parse_slot and the interval check
BeginMakeBooking(s) ==
  \E a \in ConcBookingArgs :
    LET slot == parse_slot(a.date, a.start_time, a.end_time)
        t == [NoCall EXCEPT !.op = "make_booking", !.a = a]
    IN /\ ~InFlight(tx[s])
       /\ started < MaxCalls
       /\ started' = started + 1
       /\ tx' = [tx EXCEPT ![s] =
                   IF ~slot.ok THEN [t EXCEPT !.pc = "done", !.result = "invalid_format"]
                   ELSE IF InvalidInterval(slot.start_dt, slot.end_dt)
                     THEN [t EXCEPT !.pc = "done", !.result = "invalid_interval"]
                   ELSE [t EXCEPT !.pc = "select_equipment"]]
       /\ UNCHANGED <<equipment, bookings, last, memory, turn>>

\* cancel_booking / return_equipment up to their first statement
BeginRelease(s) ==
  \E id \in ConcIdArgs, op \in {"cancel_booking", "return_equipment"} :
    /\ ~InFlight(tx[s])
    /\ started < MaxCalls
    /\ started' = started + 1
    /\ tx' = [tx EXCEPT ![s] =
                [NoCall EXCEPT !.op = op, !.a = id, !.pc = "select_booking",
                               !.new_status = IF op = "cancel_booking" THEN "cancelled"
                                                                       ELSE "returned"]]
    /\ UNCHANGED <<equipment, bookings, last, memory, turn>>

\* make_booking: SELECT equipment by name, and the available_quantity test
SelectEquipment(s) ==
  LET t == tx[s]
      equipment_id == FindEquipment(equipment, t.a.equipment_name)
  IN /\ t.pc = "select_equipment"
     /\ IF equipment_id = 0 THEN Finish(s, "not_found")
        ELSE IF NoUnitsLeft(equipment[equipment_id]) THEN Finish(s, "all_checked_out")
        ELSE tx' = [tx EXCEPT ![s] =
                      [t EXCEPT !.pc = "select_conflict", !.equipment_id = equipment_id,
                                !.loaded = equipment[equipment_id].available_quantity]]
     /\ UNCHANGED <<equipment, bookings, last, started, memory, turn>>

\* make_booking: the conflict query and scalar_one_or_none()
SelectConflict(s) ==
  LET t == tx[s]
      slot == parse_slot(t.a.date, t.a.start_time, t.a.end_time)
      conflicts == ConflictQuery(bookings, t.equipment_id, slot.start_dt, slot.end_dt)
  IN /\ t.pc = "select_conflict"
     /\ IF Cardinality(conflicts) > 1 THEN Finish(s, "internal_error")
        ELSE IF Cardinality(conflicts) = 1 THEN Finish(s, "already_booked")
        ELSE tx' = [tx EXCEPT ![s] = [t EXCEPT !.pc = "select_ids"]]
     /\ UNCHANGED <<equipment, bookings, last, started, memory, turn>>

\* make_booking: _generate_booking_id
SelectIds(s) ==
  LET t == tx[s]
  IN /\ t.pc = "select_ids"
     /\ tx' = [tx EXCEPT ![s] =
                 [t EXCEPT !.pc = "flush", !.booking_id = generate_booking_id(bookings)]]
     /\ UNCHANGED <<equipment, bookings, last, started, memory, turn>>

\* cancel_booking / return_equipment: SELECT booking by identifier, and the status test
SelectBooking(s) ==
  LET t == tx[s]
      pk == FindBooking(bookings, t.a)
  IN /\ t.pc = "select_booking"
     /\ IF pk = 0 THEN Finish(s, "booking_not_found")
        ELSE IF NotActive(bookings[pk]) THEN Finish(s, "already")
        ELSE tx' = [tx EXCEPT ![s] =
                      [t EXCEPT !.pc = "select_equipment_by_id", !.pk = pk,
                                !.equipment_id = bookings[pk].equipment_id]]
     /\ UNCHANGED <<equipment, bookings, last, started, memory, turn>>

\* cancel_booking / return_equipment: SELECT equipment by id
SelectEquipmentById(s) ==
  LET t == tx[s]
  IN /\ t.pc = "select_equipment_by_id"
     /\ tx' = [tx EXCEPT ![s] =
                 [t EXCEPT !.pc = "flush",
                           !.loaded = equipment[t.equipment_id].available_quantity]]
     /\ UNCHANGED <<equipment, bookings, last, started, memory, turn>>

\* the statements of session s wait for a lock another uncommitted session holds:
\* the equipment row, the booking row, or the unique index entry of the identifier
Blocked(s) ==
  \E o \in Sessions \ {s} :
    /\ tx[o].pc = "commit"
    /\ \/ tx[o].equipment_id = tx[s].equipment_id
       \/ (tx[o].op = "make_booking" /\ tx[s].op = "make_booking"
             /\ tx[o].booking_id = tx[s].booking_id)

\* session.commit(), first half: the flush sends UPDATE equipment and
\* INSERT INTO bookings / UPDATE bookings; a duplicate identifier raises
\* IntegrityError (except: rollback, internal error)
Flush(s) ==
  LET t == tx[s]
  IN /\ t.pc = "flush"
     /\ ~Blocked(s)
     /\ IF t.op = "make_booking" /\ UniqueViolation(bookings, t.booking_id)
        THEN Finish(s, "internal_error")
        ELSE tx' = [tx EXCEPT ![s] = [t EXCEPT !.pc = "commit"]]
     /\ UNCHANGED <<equipment, bookings, last, started, memory, turn>>

\* the rows of table "bookings" once session t's flushed statements are committed
CommittedBookings(bks, t) ==
  IF t.op = "make_booking"
  THEN LET slot == parse_slot(t.a.date, t.a.start_time, t.a.end_time)
       IN Append(bks, NewBooking(t.booking_id, t.equipment_id, t.a, slot.start_dt, slot.end_dt))
  ELSE SetStatus(bks, t.pk, t.new_status)

\* the rows of table "equipment" once session t's flushed statements are committed
CommittedEquipment(eq, t) ==
  SetAvailable(eq, t.equipment_id,
               IF t.op = "make_booking" THEN Decremented(t.loaded) ELSE Incremented(t.loaded))

\* session.commit(), second half: COMMIT makes the flushed statements visible together
Commit(s) ==
  LET t == tx[s]
  IN /\ t.pc = "commit"
     /\ Len(CommittedBookings(bookings, t)) <= MaxBookings
     /\ bookings' = CommittedBookings(bookings, t)
     /\ equipment' = CommittedEquipment(equipment, t)
     /\ Finish(s, IF t.op = "make_booking" THEN "confirmed" ELSE t.new_status)
     /\ UNCHANGED <<last, started, memory, turn>>

NextConc ==
  \E s \in Sessions :
    \/ BeginMakeBooking(s)
    \/ BeginRelease(s)
    \/ SelectEquipment(s)
    \/ SelectConflict(s)
    \/ SelectIds(s)
    \/ SelectBooking(s)
    \/ SelectEquipmentById(s)
    \/ Flush(s)
    \/ Commit(s)

SpecConc == Init /\ [][NextConc]_vars

(***************************************************************************)
(* SpecFault: the handlers of one session, statement by statement, where   *)
(* any storage statement (a SELECT, the flush, the COMMIT) may raise.      *)
(***************************************************************************)
\* the session whose calls meet storage faults
FaultSessions == {"s1"}

\* positions at which the next step is a storage statement
AtStatement(t) ==
  t.pc \in {"select_equipment", "select_conflict", "select_ids", "select_booking",
            "select_equipment_by_id", "flush", "commit"}

\* variant: the statements flushed before the fault stay in the tables
rollback_keeping_flushed(eq, bks, t) ==
  IF t.pc = "commit"
  THEN [equipment |-> CommittedEquipment(eq, t), bookings |-> CommittedBookings(bks, t)]
  ELSE [equipment |-> eq, bookings |-> bks]

\* session.rollback(): the transaction's flushed statements are undone, the
\* committed rows are as they were
rollback(eq, bks, t) == [equipment |-> eq, bookings |-> bks]

\* a statement raises: except Exception: session.rollback(), return "Failed to ...
\* due to an internal error"
StorageFault(s) ==
  LET t == tx[s]
      undone == rollback(equipment, bookings, t)
  IN /\ AtStatement(t)
     /\ equipment' = undone.equipment
     /\ bookings' = undone.bookings
     /\ Finish(s, "internal_error")
     /\ UNCHANGED <<last, started, memory, turn>>

NextFault ==
  \E s \in FaultSessions :
    \/ BeginMakeBooking(s)
    \/ BeginRelease(s)
    \/ SelectEquipment(s)
    \/ SelectConflict(s)
    \/ SelectIds(s)
    \/ SelectBooking(s)
    \/ SelectEquipmentById(s)
    \/ Flush(s)
    \/ Commit(s)
    \/ StorageFault(s)

SpecFault == Init /\ [][NextFault]_vars

(***************************************************************************)
(* The tool executor (agent/tool_executor.py).  A decoded argument payload *)
(* is [type |-> "object", fields |-> <a record>] for a JSON object and     *)
(* [type |-> "array"] or [type |-> "null"] for a JSON value without .get.  *)
(* An exception is an outcome of kind "raise".                             *)
(***************************************************************************)
ToolNames ==
  {"list_equipment", "check_availability", "make_booking", "get_bookings",
   "cancel_booking", "return_equipment", "get_active_bookings"}

\* tool names a caller may send: the seven tools, a name in the wrong case, a
\* name of no tool, the empty name
ToolNameArgs == ToolNames \cup {"Make_Booking", "delete_booking", ""}

Object(fields) == [type |-> "object", fields |-> fields]

\* payloads that are not a JSON object
NonObjectArgs == {[type |-> "array"], [type |-> "null"]}

\* the empty text "" in the encoding of each argument
EmptyText(key) ==
  IF key \in {"date", "start_time", "end_time", "booking_id"} THEN <<>> ELSE ""

\* str(arguments.get(key, ""))
Get(arguments, key) ==
  IF key \in DOMAIN arguments.fields THEN arguments.fields[key] ELSE EmptyText(key)

\* the argument records offered through the executor: one resource with two
\* adjacent slots, a reversed slot and a malformed date, and the unknown resource
BridgeSlots ==
  {<<VALID_DATE, <<0>>, <<1>> >>, <<VALID_DATE, <<1>>, <<2>> >>,
   <<VALID_DATE, <<1>>, <<0>> >>, <<BAD_TEXT, <<0>>, <<1>> >>}

ThroughBridge(a) ==
  \/ a.equipment_name = "microphone" /\ <<a.date, a.start_time, a.end_time>> \in BridgeSlots
  \/ a.equipment_name = "Drone" /\ a.date = VALID_DATE /\ a.start_time = <<0>>

\* "required" of the make_booking schema sent to the model
REQUIRED ==
  {"equipment_name", "date", "start_time", "end_time", "club_name", "booked_by",
   "telegram_username"}

\* a JSON object's fields with one key absent
Without(fields, key) == [k \in DOMAIN fields \ {key} |-> fields[k]]

\* the make_booking payload with all seven keys that is offered with one key absent
CompleteBooking ==
  CHOOSE a \in BookingArgRecords :
    /\ a.equipment_name = "microphone"
    /\ <<a.date, a.start_time, a.end_time>> = <<VALID_DATE, <<0>>, <<1>> >>

\* the payloads offered with each tool name: argument records of the engine as
\* objects, an object with a single key, the make_booking object without its
\* date and without its club name, the empty object, and the payloads that are no
\* object
PayloadArgs(tool_name) ==
  (CASE tool_name = "check_availability" ->
          {Object(a) : a \in {r \in SlotArgRecords : ThroughBridge(r)}}
     [] tool_name = "make_booking" ->
          {Object(a) : a \in {r \in BookingArgRecords : ThroughBridge(r)}}
            \cup {Object([equipment_name |-> "microphone"])}
            \cup {Object(Without(CompleteBooking, key)) : key \in {"date", "club_name"}}
     [] tool_name = "get_bookings" -> {Object([club_name |-> c]) : c \in ClubNameArgs}
     [] tool_name \in {"cancel_booking", "return_equipment"} ->
          {Object([booking_id |-> id]) : id \in BookingIdArgs}
     [] OTHER -> {})
    \cup {Object(<<>>)}
    \cup NonObjectArgs

\* an exception leaves the function
Raised(eq, bks, exc) == Outcome(eq, bks, [kind |-> "raise", exc |-> exc])

\* variant: the tool name is matched without regard to case
ToolOfAnyCase(tool_name) == IF tool_name = "Make_Booking" THEN "make_booking" ELSE tool_name

\* the tool a name selects: tool_name == "..." compares the text exactly
ToolOf(tool_name) == tool_name

\* the body of the try block: the if-chain on tool_name.  arguments.get raises
\* AttributeError on a payload that is no object; fault: the handler raises
Dispatch(eq, bks, tool_name, arguments, fault) ==
  LET tool == ToolOf(tool_name)
  IN IF tool \notin ToolNames
       THEN Outcome(eq, bks, [kind |-> "unknown_tool", tool_name |-> tool_name])
     ELSE IF tool \in {"list_equipment", "get_active_bookings"}
       THEN IF fault THEN Raised(eq, bks, "handler")
            ELSE IF tool = "list_equipment" THEN list_equipment(eq, bks)
            ELSE get_active_bookings(eq, bks)
     ELSE IF arguments.type # "object" THEN Raised(eq, bks, "AttributeError")
     ELSE IF fault THEN Raised(eq, bks, "handler")
     ELSE CASE tool = "check_availability" ->
                 check_availability(eq, bks,
                   [equipment_name |-> Get(arguments, "equipment_name"),
                    date |-> Get(arguments, "date"),
                    start_time |-> Get(arguments, "start_time"),
                    end_time |-> Get(arguments, "end_time")])
            [] tool = "make_booking" ->
                 make_booking(eq, bks,
                   [equipment_name |-> Get(arguments, "equipment_name"),
                    date |-> Get(arguments, "date"),
                    start_time |-> Get(arguments, "start_time"),
                    end_time |-> Get(arguments, "end_time"),
                    club_name |-> Get(arguments, "club_name"),
                    booked_by |-> Get(arguments, "booked_by"),
                    telegram_username |-> Get(arguments, "telegram_username")])
            [] tool = "get_bookings" -> get_bookings(eq, bks, Get(arguments, "club_name"))
            [] tool = "cancel_booking" ->
                 cancel_booking(eq, bks, Get(arguments, "booking_id"))
            [] tool = "return_equipment" ->
                 return_equipment(eq, bks, Get(arguments, "booking_id"))

\* variant: no except clause
CaughtNothing(tool_name, out) == out

\* except Exception as exc: return f"Tool '{tool_name}' encountered an unexpected error: {exc}"
Caught(tool_name, out) ==
  IF out.result.kind = "raise"
  THEN Outcome(out.equipment, out.bookings,
               [kind |-> "tool_error", tool_name |-> tool_name, exc |-> out.result.exc])
  ELSE out

execute(eq, bks, tool_name, arguments, fault) ==
  Caught(tool_name, Dispatch(eq, bks, tool_name, arguments, fault))

(***************************************************************************)
(* SpecBridge: calls of ToolExecutor.execute, one at a time.               *)
(***************************************************************************)
Execute ==
  \E tool_name \in ToolNameArgs, fault \in BOOLEAN :
    \E arguments \in PayloadArgs(tool_name) :
      LET out == execute(equipment, bookings, tool_name, arguments, fault) IN
        /\ Len(out.bookings) <= MaxBookings
        /\ equipment' = out.equipment
        /\ bookings' = out.bookings
        /\ last' = [op |-> tool_name, result |-> out.result.kind]
        /\ UNCHANGED <<tx, started, memory, turn>>

SpecBridge == Init /\ [][Execute]_vars

(***************************************************************************)
(* The conversation memory (agent/memory.py, whose code is not among the   *)
(* repository's files: modelled from section 4.4 of the specification, an  *)
(* append-only log per session).                                           *)
(***************************************************************************)
add_message(mem, session_id, role, content) ==
  [mem EXCEPT ![session_id] = Append(@, [role |-> role, content |-> content])]

add_assistant_tool_call(mem, session_id, tool_calls) ==
  [mem EXCEPT ![session_id] = Append(@, [role |-> "assistant", tool_calls |-> tool_calls])]

add_tool_result(mem, session_id, tool_call_id, result) ==
  [mem EXCEPT ![session_id] =
     Append(@, [role |-> "tool", tool_call_id |-> tool_call_id, content |-> result])]

get_history(mem, session_id) == mem[session_id]

\* memory.clear_history(session_id): the session's entries are dropped
clear_history(mem, session_id) == [mem EXCEPT ![session_id] = <<>>]

(***************************************************************************)
(* The agent loop (agent/agent.py, EquipmentBookingAgent.chat).            *)
(***************************************************************************)
max_tool_iterations == 10

\* the number of model responses for which the model stub chooses among all
\* batches; in later iterations its only batch is one list_equipment call
MaxVaried == 2

\* the fixed replies of chat() (error_msg without its leading warning sign)
EMPTY_PROMPT == "Please send a message so I can help you."
error_msg ==
  "I'm having trouble connecting to my AI backend right now. Please try again in a moment."
NO_CONTENT == "I wasn't able to generate a response. Please try again."
fallback == "I received an unexpected response. Please try rephrasing your message."
timeout_msg == "I encountered an issue processing your request. Please try again."

\* user texts: the empty text and a request
UserMessages == {"", "book the microphone"}

\* message.content of a final response: a text, or nothing
ContentArgs == {"Booked.", ""}

\* finish reasons that are neither "stop" nor "tool_calls"
OtherFinishReasons == {"length"}

\* tool_call.function.arguments as sent by the model: a JSON text with its decoded
\* value, a text that is no JSON, or no text
Json(value) == [json |-> "text", value |-> value]
MALFORMED_JSON == [json |-> "malformed"]

\* variant: a malformed payload decodes to None
DecodeToNone(raw) == IF raw.json = "text" THEN raw.value ELSE [type |-> "null"]

\* json.loads(arguments or "{}"), except json.JSONDecodeError: {}
Decode(raw) == IF raw.json = "text" THEN raw.value ELSE Object(<<>>)

\* the booking the conversation is about: the microphone, first slot
TheBooking ==
  CHOOSE a \in BookingArgRecords :
    /\ a.equipment_name = "microphone"
    /\ a.date = VALID_DATE /\ a.start_time = <<0>> /\ a.end_time = <<1>>

TheSlot ==
  [equipment_name |-> TheBooking.equipment_name, date |-> TheBooking.date,
   start_time |-> TheBooking.start_time, end_time |-> TheBooking.end_time]

\* the batches the model stub answers with in its n-th response; a request's id
\* is made of the response's number and the request's place in the batch
Batches(n) ==
  LET call(i, name, arguments) ==
        [id |-> <<"call", n, i>>, name |-> name, arguments |-> arguments]
      list == <<call(1, "list_equipment", Json(Object(<<>>)))>>
  IN IF n > MaxVaried THEN {list}
     ELSE {list,
           <<call(1, "check_availability", Json(Object(TheSlot)))>>,
           <<call(1, "make_booking", Json(Object(TheBooking)))>>,
           <<call(1, "check_availability", Json(Object(TheSlot))),
             call(2, "make_booking", MALFORMED_JSON),
             call(3, "make_booking", Json(Object(TheBooking)))>>,
           <<call(1, "check_availability", Json(Object(TheSlot))),
             call(2, "make_booking", Json(Object(TheBooking)))>>}

\* variant: no text counts as empty
IsEmptyNever(user_message) == FALSE

\* if not user_message
IsEmpty(user_message) == user_message = ""

\* variant: one more iteration
LoopExhaustedLate(iteration) == iteration > max_tool_iterations

\* for iteration in range(self.max_tool_iterations): no iteration is left
LoopExhausted(iteration) == iteration >= max_tool_iterations

\* variant: the requests are executed last to first
NextToolCallReversed(tool_calls, k) == tool_calls[Len(tool_calls) + 1 - k]

\* for tool_call in message.tool_calls: the k-th request executed
NextToolCall(tool_calls, k) == tool_calls[k]

\* variant: the content is returned as it is, also when it is empty
ReplyOfVerbatim(content) == content

\* reply = message.content or "I wasn't able to generate a response. Please try again."
ReplyOf(content) == IF content = "" THEN NO_CONTENT ELSE content

\* variant: the model is called again after a failure
OnModelFailureRetry(t) ==
  [t EXCEPT !.pc = "call_model", !.response = "error", !.reply = error_msg,
            !.iteration = @ + 1, !.model_calls = @ + 1]

\* except Exception: the turn ends with error_msg
OnModelFailure(t) ==
  [t EXCEPT !.pc = "done", !.response = "error", !.reply = error_msg,
            !.iteration = @ + 1, !.model_calls = @ + 1]

\* variant: the reply is recorded and the loop goes on
ReturnAndContinue(t, response, reply) ==
  [t EXCEPT !.pc = "call_model", !.response = response, !.reply = reply,
            !.iteration = @ + 1, !.model_calls = @ + 1]

\* return reply: the turn ends
Return(t, response, reply) ==
  [t EXCEPT !.pc = "done", !.response = response, !.reply = reply,
            !.iteration = @ + 1, !.model_calls = @ + 1]

\* variant: the user text starts the session's transcript over
ReceiveStartingOver(s) ==
  LET t == turn[s]
  IN /\ t.pc = "start"
     /\ IF IsEmpty(t.user_message)
        THEN /\ turn' = [turn EXCEPT ![s] = [t EXCEPT !.pc = "done", !.reply = EMPTY_PROMPT]]
             /\ memory' = memory
        ELSE /\ turn' = [turn EXCEPT ![s] = [t EXCEPT !.pc = "call_model"]]
             /\ memory' = add_message(clear_history(memory, s), s, "user", t.user_message)
     /\ UNCHANGED <<equipment, bookings, last, tx, started>>

\* chat() up to the loop: the empty text returns at once, any other text is
\* added to the memory
Receive(s) ==
  LET t == turn[s]
  IN /\ t.pc = "start"
     /\ IF IsEmpty(t.user_message)
        THEN /\ turn' = [turn EXCEPT ![s] = [t EXCEPT !.pc = "done", !.reply = EMPTY_PROMPT]]
             /\ memory' = memory
        ELSE /\ turn' = [turn EXCEPT ![s] = [t EXCEPT !.pc = "call_model"]]
             /\ memory' = add_message(memory, s, "user", t.user_message)
     /\ UNCHANGED <<equipment, bookings, last, tx, started>>

\* variant: the error reply is returned without being recorded
ModelFailsUnrecorded(s) ==
  LET t == turn[s]
  IN /\ t.pc = "call_model"
     /\ turn' = [turn EXCEPT ![s] = OnModelFailure(t)]
     /\ UNCHANGED <<equipment, bookings, last, tx, started, memory>>

\* client.chat.completions.create raises
ModelFails(s) ==
  LET t == turn[s]
  IN /\ t.pc = "call_model"
     /\ turn' = [turn EXCEPT ![s] = OnModelFailure(t)]
     /\ memory' = add_message(memory, s, "assistant", error_msg)
     /\ UNCHANGED <<equipment, bookings, last, tx, started>>

\* finish_reason == "stop"
ModelStops(s) ==
  \E content \in ContentArgs :
    LET t == turn[s]
        reply == ReplyOf(content)
    IN /\ t.pc = "call_model"
       /\ turn' = [turn EXCEPT ![s] = Return(t, "stop", reply)]
       /\ memory' = add_message(memory, s, "assistant", reply)
       /\ UNCHANGED <<equipment, bookings, last, tx, started>>

\* finish_reason == "tool_calls" and message.tool_calls: the batch is recorded
ModelCallsTools(s) ==
  \E tool_calls \in Batches(turn[s].iteration + 1) :
    LET t == turn[s]
    IN /\ t.pc = "call_model"
       /\ turn' = [turn EXCEPT ![s] =
                     [t EXCEPT !.pc = "execute", !.response = "tool_calls",
                               !.tool_calls = tool_calls, !.k = 1,
                               !.iteration = @ + 1, !.model_calls = @ + 1]]
       /\ memory' = add_assistant_tool_call(memory, s, tool_calls)
       /\ UNCHANGED <<equipment, bookings, last, tx, started>>

\* any other finish reason, or "tool_calls" with no tool call
ModelUnexpected(s) ==
  \E finish_reason \in OtherFinishReasons \cup {"tool_calls"} :
    LET t == turn[s]
    IN /\ t.pc = "call_model"
       /\ turn' = [turn EXCEPT ![s] =
                     Return(t, IF finish_reason = "tool_calls" THEN "no_tool_calls"
                               ELSE finish_reason, fallback)]
       /\ memory' = add_message(memory, s, "assistant", fallback)
       /\ UNCHANGED <<equipment, bookings, last, tx, started>>

\* one pass of "for tool_call in message.tool_calls": decode, execute, record the
\* result; after the last request the loop continues with the next model call or,
\* with no iteration left, the turn ends with timeout_msg
ExecuteToolCall(s) ==
  LET t == turn[s]
      after == [t EXCEPT !.executed = @ + 1]
  IN /\ t.pc = "execute"
     /\ \E tool_call \in {NextToolCall(t.tool_calls, t.k)} :
        \E out \in {execute(equipment, bookings, tool_call.name,
                             Decode(tool_call.arguments), FALSE)} :
        \E recorded \in {add_tool_result(memory, s, tool_call.id, out.result)} :
          /\ Len(out.bookings) <= MaxBookings
          /\ equipment' = out.equipment
          /\ bookings' = out.bookings
          /\ IF t.k < Len(t.tool_calls)
             THEN /\ turn' = [turn EXCEPT ![s] = [after EXCEPT !.k = @ + 1]]
                  /\ memory' = recorded
             ELSE IF ~LoopExhausted(t.iteration)
             THEN /\ turn' = [turn EXCEPT ![s] = [after EXCEPT !.pc = "call_model"]]
                  /\ memory' = recorded
             ELSE /\ turn' = [turn EXCEPT ![s] =
                                [after EXCEPT !.pc = "done", !.reply = timeout_msg]]
                  /\ memory' = add_message(recorded, s, "assistant", timeout_msg)
     /\ UNCHANGED <<last, tx, started>>

\* a client of another session books the same slot while the turn is in progress
OtherClientBooks ==
  LET out == make_booking(equipment, bookings, TheBooking)
  IN /\ \E s \in Sessions : turn[s].pc \in {"call_model", "execute"}
     /\ out.result.kind = "confirmed"
     /\ Len(out.bookings) <= MaxBookings
     /\ equipment' = out.equipment
     /\ bookings' = out.bookings
     /\ UNCHANGED <<last, tx, started, memory, turn>>

TurnStep(s) ==
  \/ Receive(s)
  \/ ModelFails(s)
  \/ ModelStops(s)
  \/ ModelCallsTools(s)
  \/ ModelUnexpected(s)
  \/ ExecuteToolCall(s)

\* one session receives a user text
InitAgent ==
  /\ equipment = seed_equipment
  /\ bookings = <<>>
  /\ last = [op |-> "none", result |-> "none"]
  /\ tx = IdleTx
  /\ started = 0
  /\ memory = NoMemory
  /\ \E s \in Sessions, user_message \in UserMessages :
       turn = [o \in Sessions |->
                 IF o = s THEN [NoTurn EXCEPT !.pc = "start", !.user_message = user_message]
                 ELSE NoTurn]

NextAgent ==
  \/ \E s \in Sessions : TurnStep(s)
  \/ OtherClientBooks

SpecAgent == InitAgent /\ [][NextAgent]_vars

\* the thread that runs chat() keeps running, and every model call returns or raises
SpecAgentLive == SpecAgent /\ \A s \in Sessions : WF_vars(TurnStep(s))

(***************************************************************************)
(* SpecChat: the transports (bot/telegram_bot.py, api/main.py) over the    *)
(* shared agent and memory.  Each session has at most one call of chat()   *)
(* in flight (turns of one session are dispatched one after the other);    *)
(* calls of different sessions interleave at every statement, and /clear   *)
(* of a session is handled at any moment: the web API serves chat() in its *)
(* own thread under session ids chosen by its clients, so that a turn of a *)
(* chat's session can be in flight while the bot handles that chat's       *)
(* /clear.                                                                 *)
(***************************************************************************)
\* handle_message / POST /chat: agent.chat(session_id, text) is called
HandleMessage(s) ==
  \E user_message \in UserMessages :
    /\ turn[s].pc = "idle"
    /\ turn' = [turn EXCEPT ![s] =
                  [NoTurn EXCEPT !.pc = "start", !.user_message = user_message]]
    /\ UNCHANGED <<equipment, bookings, last, tx, started, memory>>

\* clear_command: /clear resets the history of the chat's session
ClearCommand(s) ==
  /\ memory' = clear_history(memory, s)
  /\ UNCHANGED <<equipment, bookings, last, tx, started, turn>>

\* the number of model responses per turn up to which a turn is followed
MaxTurnCalls == 2

\* the batches the model stub answers with under the transports: the single
\* request and the check-then-create pair
ChatBatches ==
  UNION {{b \in Batches(n) : Len(b) = 2 \/ b[1].name = "list_equipment"} :
           n \in 1..MaxTurnCalls + 1}

\* a statement of the session's call of chat()
ChatStep(s) ==
  /\ TurnStep(s)
  /\ turn'[s].model_calls <= MaxTurnCalls
  /\ turn'[s].tool_calls \in {<<>>} \cup ChatBatches

\* a session's transcript when the transports start to be followed: no entry,
\* or the entries of an earlier turn that ended with a final answer
EarlierTranscripts ==
  {<<>>, <<[role |-> "user", content |-> "book the microphone"],
           [role |-> "assistant", content |-> NO_CONTENT]>>}

InitChat ==
  /\ equipment = seed_equipment
  /\ bookings = <<>>
  /\ last = [op |-> "none", result |-> "none"]
  /\ tx = IdleTx
  /\ started = 0
  /\ \E s \in Sessions, earlier \in EarlierTranscripts :
       memory = [NoMemory EXCEPT ![s] = earlier]
  /\ turn = [s \in Sessions |-> NoTurn]

NextChat ==
  \E s \in Sessions :
    \/ HandleMessage(s)
    \/ ChatStep(s)
    \/ ClearCommand(s)

SpecChat == InitChat /\ [][NextChat]_vars

(***************************************************************************)
(* Vocabulary of the properties.                                           *)
(***************************************************************************)
\* the half-open rule: [a, b) and [c, d) overlap iff a < d and c < b
HalfOpenOverlap(x, y) == x.start_time < y.end_time /\ y.start_time < x.end_time

ActiveRows(equipment_id) ==
  {i \in DOMAIN bookings :
     bookings[i].equipment_id = equipment_id /\ bookings[i].status = "active"}

\* an identifier of the fixed format: the prefix letter and three decimal digits
WellFormedId(bid) ==
  /\ Len(bid) = 4
  /\ bid[1] = "B"
  /\ \A k \in 2..4 : bid[k] \in {"0", "1", "2", "3", "4", "5", "6", "7", "8", "9"}

IdNumber(bid) == 100 * DigitValue(bid[2]) + 10 * DigitValue(bid[3]) + DigitValue(bid[4])

(***************************************************************************)
(* C1: after any sequence of make_booking, cancel_booking and              *)
(* return_equipment calls run one at a time, no two active reservations of *)
(* the same resource have overlapping intervals under the half-open rule.  *)
(***************************************************************************)
NoOverlappingActive ==
  \A i, j \in DOMAIN bookings :
    (i # j /\ bookings[i].equipment_id = bookings[j].equipment_id
       /\ bookings[i].status = "active" /\ bookings[j].status = "active")
      => ~HalfOpenOverlap(bookings[i], bookings[j])

\* a create succeeded beside an active reservation of the same resource
W_NoOverlappingActive ==
  /\ last = [op |-> "make_booking", result |-> "confirmed"]
  /\ \E e \in DOMAIN equipment : Cardinality(ActiveRows(e)) = 2

(***************************************************************************)
(* C3: from a ledger with available = total everywhere, after every        *)
(* operation of a sequence executed one at a time every resource has       *)
(* 0 <= available <= total.                                                *)
(***************************************************************************)
AvailableWithinBounds ==
  \A e \in DOMAIN equipment :
    /\ 0 <= equipment[e].available_quantity
    /\ equipment[e].available_quantity <= equipment[e].total_quantity

\* a create was refused on a resource with no unit left, after a release gave a
\* unit of another reservation back
W_AvailableWithinBounds ==
  /\ last = [op |-> "make_booking", result |-> "all_checked_out"]
  /\ \E e \in DOMAIN equipment : equipment[e].available_quantity = 0
  /\ \E i \in DOMAIN bookings : bookings[i].status # "active"

(***************************************************************************)
(* C5: each successful make_booking assigns the identifier of the fixed    *)
(* format whose number is 1 + the maximum number over all existing         *)
(* reservations of any status (B001 on an empty ledger); identifiers are   *)
(* strictly increasing, never change and are never assigned again.         *)
(***************************************************************************)
IdentifiersIncrease ==
  [][Len(bookings') > Len(bookings) =>
       LET new == bookings'[Len(bookings')].booking_id
           old == {IdNumber(bookings[i].booking_id) : i \in DOMAIN bookings}
       IN /\ Len(bookings') = Len(bookings) + 1
          /\ WellFormedId(new)
          /\ IdNumber(new) = 1 + MaxOf(old)
          /\ \A i \in DOMAIN bookings :
               /\ bookings'[i].booking_id = bookings[i].booking_id
               /\ IdNumber(bookings[i].booking_id) < IdNumber(new)]_vars

\* a create succeeded after the first reservation had been cancelled or returned
W_IdentifiersIncrease ==
  /\ last = [op |-> "make_booking", result |-> "confirmed"]
  /\ Len(bookings) = 2
  /\ bookings[1].status # "active"
  /\ bookings[2].booking_id = <<"B", "0", "0", "2">>

(***************************************************************************)
(* C6: a reservation's status only changes from active to cancelled (by    *)
(* cancel_booking) or from active to returned (by return_equipment); a     *)
(* cancelled or returned reservation never changes status again, and a     *)
(* reservation is created active and never removed.                        *)
(***************************************************************************)
StatusTransitions ==
  [][/\ \A i \in DOMAIN bookings :
          /\ i \in DOMAIN bookings'
          /\ bookings'[i].status # bookings[i].status =>
               /\ bookings[i].status = "active"
               /\ \/ bookings'[i].status = "cancelled" /\ last'.op = "cancel_booking"
                  \/ bookings'[i].status = "returned" /\ last'.op = "return_equipment"
     /\ \A i \in DOMAIN bookings' \ DOMAIN bookings : bookings'[i].status = "active"]_vars

\* a cancel was attempted on a returned reservation, and refused
W_StatusTransitions ==
  /\ last = [op |-> "cancel_booking", result |-> "already"]
  /\ \E i \in DOMAIN bookings : bookings[i].status = "returned"

(***************************************************************************)
(* C7: a make_booking call that is refused (conflict, no unit left,        *)
(* unknown resource, invalid interval or format, internal error) leaves    *)
(* every available count unchanged and inserts no row.                     *)
(***************************************************************************)
RefusedCreateChangesNothing ==
  [][(last'.op = "make_booking" /\ last'.result # "confirmed")
       => (equipment' = equipment /\ bookings' = bookings)]_vars

\* a create was refused by the overlap check while the resource had units left
W_RefusedCreateChangesNothing ==
  /\ last = [op |-> "make_booking", result |-> "already_booked"]
  /\ \E e \in DOMAIN equipment :
       ActiveRows(e) # {} /\ equipment[e].available_quantity > 0

(***************************************************************************)
(* C8: a make_booking call refused because the requested interval overlaps *)
(* one or more active reservations reports the same detail as              *)
(* check_availability on the same arguments: the earliest-starting         *)
(* conflicting reservation, its holder, and the latest end time of the     *)
(* conflicts as the next free moment (the end time make_booking reports    *)
(* counts as that moment where its text has no sentence for it).           *)
(***************************************************************************)
NextFreeReported(r) == IF "next" \in DOMAIN r THEN r.next ELSE r.to

CreateReportsLikeCheck ==
  \A a \in BookingArgRecords :
    LET slot == parse_slot(a.date, a.start_time, a.end_time)
        e == FindEquipment(equipment, a.equipment_name)
        requested == [start_time |-> slot.start_dt, end_time |-> slot.end_dt]
        overlapping == {i \in ActiveRows(e) : HalfOpenOverlap(bookings[i], requested)}
        m == make_booking(equipment, bookings, a).result
        c == check_availability(equipment, bookings, a).result
    IN (/\ slot.ok
        /\ slot.start_dt < slot.end_dt
        /\ e # 0
        /\ equipment[e].available_quantity > 0
        /\ overlapping # {})
       => /\ m.kind = "already_booked"
          /\ c.kind = "booked"
          /\ m.from = c.from
          /\ m.to = c.to
          /\ m.by = c.by
          /\ NextFreeReported(m) = c.next

(***************************************************************************)
(* C2: of two make_booking calls issued by concurrent sessions for the     *)
(* same resource and overlapping intervals at most one succeeds, and the   *)
(* ledger never holds two overlapping active reservations of a resource.   *)
(***************************************************************************)
Confirmed(t) == t.pc = "done" /\ t.op = "make_booking" /\ t.result = "confirmed"

RowOf(t) == CHOOSE i \in DOMAIN bookings : bookings[i].booking_id = t.booking_id

ConcurrentCreatesExclude ==
  /\ NoOverlappingActive
  /\ \A s, o \in Sessions :
       (s # o /\ Confirmed(tx[s]) /\ Confirmed(tx[o])
          /\ tx[s].equipment_id = tx[o].equipment_id
          /\ bookings[RowOf(tx[s])].status = "active"
          /\ bookings[RowOf(tx[o])].status = "active")
         => ~HalfOpenOverlap(bookings[RowOf(tx[s])], bookings[RowOf(tx[o])])

(***************************************************************************)
(* C4: under every interleaving of make_booking, cancel_booking and        *)
(* return_equipment calls of concurrent sessions, every committed state    *)
(* has available = total - (number of active reservations of the resource) *)
(* and available <= total.                                                 *)
(***************************************************************************)
AvailableMatchesActive ==
  \A e \in DOMAIN equipment :
    /\ equipment[e].available_quantity
         = equipment[e].total_quantity - Cardinality(ActiveRows(e))
    /\ equipment[e].available_quantity <= equipment[e].total_quantity

(***************************************************************************)
(* C10: when two concurrent sessions call cancel_booking and/or            *)
(* return_equipment on the same active reservation, the available count of *)
(* its resource is incremented once: the commit of a release that finds    *)
(* the reservation already released does not raise the count again.        *)
(***************************************************************************)
ReleaseIncrementsOnce ==
  [][\A s \in Sessions :
       (/\ tx[s].pc = "commit"
        /\ tx'[s].pc = "done"
        /\ tx[s].op \in {"cancel_booking", "return_equipment"}
        /\ bookings[tx[s].pk].status # "active")
       => equipment'[tx[s].equipment_id].available_quantity
            <= equipment[tx[s].equipment_id].available_quantity]_vars

(***************************************************************************)
(* C9: the ledger mutations of one engine operation become visible to      *)
(* other sessions together: every step that changes the committed rows and *)
(* inserts an active reservation lowers the available count of its         *)
(* resource by one in the same step, and every step that changes a         *)
(* reservation's status from active to cancelled or returned raises it by  *)
(* one in the same step.                                                   *)
(***************************************************************************)
VisibleTogether ==
  [][/\ \A i \in DOMAIN bookings' \ DOMAIN bookings :
          bookings'[i].status = "active"
            => equipment'[bookings'[i].equipment_id].available_quantity
                 = equipment[bookings'[i].equipment_id].available_quantity - 1
     /\ \A i \in DOMAIN bookings :
          (bookings[i].status = "active" /\ bookings'[i].status \in {"cancelled", "returned"})
            => equipment'[bookings[i].equipment_id].available_quantity
                 = equipment[bookings[i].equipment_id].available_quantity + 1]_vars

(***************************************************************************)
(* C11: cancel_booking and return_equipment on an identifier that matches  *)
(* no reservation report not-found, and on a reservation that is already   *)
(* cancelled or returned report that it is already in that status; in both *)
(* cases no reservation and no available count changes.                    *)
(***************************************************************************)
MatchingRows(booking_id) ==
  {i \in DOMAIN bookings : upper(bookings[i].booking_id) = upper(booking_id)}

RefusedReleaseChangesNothing ==
  /\ [](\A booking_id \in BookingIdArgs :
          \A r \in {cancel_booking(equipment, bookings, booking_id).result,
                    return_equipment(equipment, bookings, booking_id).result} :
            /\ MatchingRows(booking_id) = {} => r.kind = "booking_not_found"
            /\ \A i \in MatchingRows(booking_id) :
                 bookings[i].status \in {"cancelled", "returned"}
                   => (r.kind = "already" /\ r.status = bookings[i].status))
  /\ [][(/\ last'.op \in {"cancel_booking", "return_equipment"}
         /\ last'.result \in {"booking_not_found", "already"})
          => (equipment' = equipment /\ bookings' = bookings)]_vars

\* a return was attempted on an identifier never assigned, beside stored reservations
W_RefusedReleaseChangesNothing ==
  /\ last = [op |-> "return_equipment", result |-> "booking_not_found"]
  /\ \E i \in DOMAIN bookings : bookings[i].status = "active"
  /\ \E i \in DOMAIN bookings : bookings[i].status = "cancelled"

(***************************************************************************)
(* C12: cancel_booking (return_equipment) on an active reservation sets    *)
(* exactly that reservation's status to cancelled (returned) and raises    *)
(* exactly its own resource's available count by one; every other          *)
(* reservation and resource is unchanged.                                  *)
(***************************************************************************)
ReleaseFrame ==
  [][(/\ last'.op \in {"cancel_booking", "return_equipment"}
      /\ last'.result \in {"cancelled", "returned"})
       => \E pk \in DOMAIN bookings :
            /\ bookings[pk].status = "active"
            /\ last'.result = (IF last'.op = "cancel_booking" THEN "cancelled" ELSE "returned")
            /\ bookings' = [bookings EXCEPT ![pk].status = last'.result]
            /\ equipment' = [equipment EXCEPT
                               ![bookings[pk].equipment_id].available_quantity = @ + 1]]_vars

\* a reservation was cancelled while another reservation of the same resource stays active
W_ReleaseFrame ==
  /\ last = [op |-> "cancel_booking", result |-> "cancelled"]
  /\ \E i, j \in DOMAIN bookings :
       /\ bookings[i].equipment_id = bookings[j].equipment_id
       /\ bookings[i].status = "cancelled"
       /\ bookings[j].status = "active"

ExecuteNeverRaises ==
  /\ last.result # "raise"
  /\ \A tool_name \in ToolNameArgs, fault \in BOOLEAN :
       \A arguments \in PayloadArgs(tool_name) :
         execute(equipment, bookings, tool_name, arguments, fault).result.kind # "raise"

\* a call whose handler or argument coercion raised returned the error text, on a
\* ledger that holds a reservation
W_ExecuteNeverRaises ==
  /\ last = [op |-> "cancel_booking", result |-> "tool_error"]
  /\ bookings # <<>>

(***************************************************************************)
(* C16: a request whose name is not one of the seven tool names produces   *)
(* the "Unknown tool ... No action was taken." result and leaves every     *)
(* resource and every reservation unchanged.                               *)
(***************************************************************************)
UnknownToolNoAction ==
  /\ [](\A tool_name \in ToolNameArgs \ ToolNames, fault \in BOOLEAN :
          \A arguments \in PayloadArgs(tool_name) :
            LET out == execute(equipment, bookings, tool_name, arguments, fault)
            IN /\ out.result.kind = "unknown_tool"
               /\ out.equipment = equipment
               /\ out.bookings = bookings)
  /\ [][last'.op \notin ToolNames
          => (/\ last'.result = "unknown_tool"
              /\ equipment' = equipment
              /\ bookings' = bookings)]_vars

\* an unknown name was dispatched on a ledger that holds an active reservation
W_UnknownToolNoAction ==
  /\ last = [op |-> "delete_booking", result |-> "unknown_tool"]
  /\ \E i \in DOMAIN bookings : bookings[i].status = "active"

(***************************************************************************)
(* Vocabulary of the transcript properties.                                *)
(***************************************************************************)
IsBatchEntry(e) == "tool_calls" \in DOMAIN e

IsResultEntry(e) == e.role = "tool"

AssistantText(content) == [role |-> "assistant", content |-> content]

LastEntry(h) == h[Len(h)]

(***************************************************************************)
(* C14: make_booking re-verifies instead of trusting an earlier check: a   *)
(* make_booking request of a turn that executes while an active            *)
(* reservation of the same resource overlaps its interval (committed by    *)
(* another session after the turn's check_availability reported the slot   *)
(* free) is refused and creates no reservation.                            *)
(***************************************************************************)
RecheckedOnCreate ==
  [][\A s \in Sessions :
       LET t == turn[s]
           tool_call == t.tool_calls[t.k]
           a == Decode(tool_call.arguments).fields
           slot == parse_slot(a.date, a.start_time, a.end_time)
           requested == [start_time |-> slot.start_dt, end_time |-> slot.end_dt]
       IN (/\ t.pc = "execute"
           /\ turn'[s].executed = t.executed + 1
           /\ tool_call.name = "make_booking"
           /\ {"equipment_name", "date", "start_time", "end_time"} \subseteq DOMAIN a
           /\ \E i \in ActiveRows(FindEquipment(equipment, a.equipment_name)) :
                HalfOpenOverlap(bookings[i], requested))
          => /\ bookings' = bookings
             /\ equipment' = equipment
             /\ memory'[s][Len(memory[s]) + 1].content.kind
                  \in {"already_booked", "all_checked_out", "internal_error"}]_vars

\* the turn's check reported the slot free, another session then booked it, and
\* the turn's make_booking was refused
W_RecheckedOnCreate ==
  \E s \in Sessions :
    /\ Len(bookings) = 1
    /\ \E i, j \in DOMAIN memory[s] :
         /\ i < j
         /\ IsResultEntry(memory[s][i]) /\ memory[s][i].content.kind = "available"
         /\ IsResultEntry(memory[s][j]) /\ memory[s][j].content.kind = "already_booked"

(***************************************************************************)
(* C17: every turn on a non-empty user text ends with a reply after at     *)
(* most 10 model invocations, whatever the model returns; when all 10      *)
(* responses are tool-call batches the turn appends timeout_msg as an      *)
(* assistant entry and returns it, with no 11th invocation.                *)
(***************************************************************************)
TurnBounded ==
  /\ [](\A s \in Sessions :
          /\ turn[s].model_calls <= max_tool_iterations
          /\ (/\ turn[s].pc = "done"
              /\ turn[s].model_calls = max_tool_iterations
              /\ turn[s].response = "tool_calls")
             => /\ turn[s].reply = timeout_msg
                /\ LastEntry(memory[s]) = AssistantText(timeout_msg))
  /\ <>(\A s \in Sessions :
          \/ turn[s].pc = "idle"
          \/ turn[s].pc = "done" /\ turn[s].reply # "none")

\* ten batches were answered and the turn ended with timeout_msg
W_TurnBounded ==
  \E s \in Sessions :
    /\ turn[s].pc = "done"
    /\ turn[s].reply = timeout_msg
    /\ Cardinality({i \in DOMAIN memory[s] : IsBatchEntry(memory[s][i])}) = max_tool_iterations

(***************************************************************************)
(* C18: for every batch of n >= 1 tool calls the model returns, the loop   *)
(* appends exactly one batch entry before any request executes, executes   *)
(* the requests in the order given and appends exactly n result entries in *)
(* that order, each with its request's id, and only then calls the model   *)
(* again.                                                                  *)
(***************************************************************************)
BatchThenResults ==
  \A s \in Sessions :
    LET t == turn[s]
        h == memory[s]
        n == Len(t.tool_calls)
        done_in_batch == IF t.pc = "execute" THEN t.k - 1 ELSE n
        base == Len(h) - done_in_batch - (IF t.pc = "done" THEN 1 ELSE 0)
    IN /\ t.response = "tool_calls"
          => /\ n >= 1
             /\ base >= 1
             /\ h[base] = [role |-> "assistant", tool_calls |-> t.tool_calls]
             /\ \A j \in 1..done_in_batch :
                  /\ IsResultEntry(h[base + j])
                  /\ h[base + j].tool_call_id = t.tool_calls[j].id
             /\ Cardinality({i \in DOMAIN h : IsBatchEntry(h[i])}) = t.model_calls
       /\ Cardinality({i \in DOMAIN h : IsResultEntry(h[i])}) = t.executed

\* a check-then-create batch has run: one batch entry, then the result of the check
\* and the result of the create, and the next model call is due
W_BatchThenResults ==
  \E s \in Sessions :
    LET h == memory[s]
    IN /\ turn[s].pc = "call_model"
       /\ Len(turn[s].tool_calls) = 2
       /\ Len(h) = 4
       /\ IsBatchEntry(h[2])
       /\ h[3].content.kind = "available" /\ h[3].tool_call_id = turn[s].tool_calls[1].id
       /\ h[4].content.kind = "confirmed" /\ h[4].tool_call_id = turn[s].tool_calls[2].id

(***************************************************************************)
(* C19: a turn whose user text is empty returns the prompt-for-input reply *)
(* without appending to the transcript, without a model invocation and     *)
(* without executing a tool.                                               *)
(***************************************************************************)
EmptyTextShortCircuits ==
  \A s \in Sessions :
    (turn[s].pc # "idle" /\ turn[s].user_message = "")
      => /\ turn[s].pc \in {"start", "done"}
         /\ turn[s].pc = "done" => turn[s].reply = EMPTY_PROMPT
         /\ memory = NoMemory
         /\ turn[s].model_calls = 0
         /\ turn[s].executed = 0
         /\ equipment = seed_equipment
         /\ bookings = <<>>

\* the turn on the empty text has returned
W_EmptyTextShortCircuits ==
  \E s \in Sessions :
    /\ turn[s].pc = "done"
    /\ turn[s].user_message = ""
    /\ turn[s].reply = EMPTY_PROMPT

(***************************************************************************)
(* C20: when a model invocation fails at any iteration, the loop appends   *)
(* error_msg as an assistant entry and returns it, and the turn makes no   *)
(* further model invocation and executes no further tool (no retry).       *)
(***************************************************************************)
NoRetryAfterFailure ==
  /\ [](\A s \in Sessions :
          turn[s].response = "error"
            => /\ turn[s].pc = "done"
               /\ turn[s].reply = error_msg
               /\ LastEntry(memory[s]) = AssistantText(error_msg))
  /\ [][\A s \in Sessions :
          /\ turn[s].response = "error"
               => (turn'[s] = turn[s] /\ memory'[s] = memory[s])
          /\ (turn[s].response # "error" /\ turn'[s].response = "error")
               => /\ memory'[s] = Append(memory[s], AssistantText(error_msg))
                  /\ turn'[s].model_calls = turn[s].model_calls + 1
                  /\ turn'[s].executed = turn[s].executed
                  /\ equipment' = equipment
                  /\ bookings' = bookings]_vars

\* the model failed in the third iteration, after tool calls had run
W_NoRetryAfterFailure ==
  \E s \in Sessions :
    /\ turn[s].response = "error"
    /\ turn[s].model_calls = 3
    /\ turn[s].executed >= 2

(***************************************************************************)
(* C21: when the model declares a final answer (finish_reason "stop") the  *)
(* loop appends the answer text as an assistant entry and returns exactly  *)
(* that text, or NO_CONTENT in its place when the text is empty; the turn  *)
(* executes no tool and calls no model afterwards.                         *)
(***************************************************************************)
FinalAnswerReturned ==
  /\ [](\A s \in Sessions :
          turn[s].response = "stop"
            => /\ turn[s].pc = "done"
               /\ turn[s].reply # ""
               /\ LastEntry(memory[s]) = AssistantText(turn[s].reply))
  /\ [][\A s \in Sessions :
          /\ turn[s].response = "stop"
               => (turn'[s] = turn[s] /\ memory'[s] = memory[s])
          /\ (turn[s].response # "stop" /\ turn'[s].response = "stop")
               => /\ \E content \in ContentArgs :
                       turn'[s].reply = (IF content = "" THEN NO_CONTENT ELSE content)
                  /\ memory'[s] = Append(memory[s], AssistantText(turn'[s].reply))
                  /\ turn'[s].executed = turn[s].executed
                  /\ equipment' = equipment
                  /\ bookings' = bookings]_vars

\* after tool calls had run, the model stopped with no text and the turn returned
\* NO_CONTENT
W_FinalAnswerReturned ==
  \E s \in Sessions :
    /\ turn[s].response = "stop"
    /\ turn[s].reply = NO_CONTENT
    /\ turn[s].executed >= 1

(***************************************************************************)
(* C22: when the model's response is neither a final answer nor a batch    *)
(* with at least one request (also a response with finish_reason           *)
(* "tool_calls" and no request), the loop appends fallback as an assistant *)
(* entry and returns it; the turn executes no tool and calls no model      *)
(* afterwards.                                                             *)
(***************************************************************************)
UnexpectedResponseFallsBack ==
  /\ [](\A s \in Sessions :
          turn[s].response \in OtherFinishReasons \cup {"no_tool_calls"}
            => /\ turn[s].pc = "done"
               /\ turn[s].reply = fallback
               /\ LastEntry(memory[s]) = AssistantText(fallback))
  /\ [][\A s \in Sessions :
          LET unexpected(t) == t.response \in OtherFinishReasons \cup {"no_tool_calls"}
          IN /\ unexpected(turn[s])
                  => (turn'[s] = turn[s] /\ memory'[s] = memory[s])
             /\ (~unexpected(turn[s]) /\ unexpected(turn'[s]))
                  => /\ memory'[s] = Append(memory[s], AssistantText(fallback))
                     /\ turn'[s].model_calls = turn[s].model_calls + 1
                     /\ turn'[s].executed = turn[s].executed
                     /\ equipment' = equipment
                     /\ bookings' = bookings]_vars

\* after a batch had run, the model declared tool calls without a request
W_UnexpectedResponseFallsBack ==
  \E s \in Sessions :
    /\ turn[s].response = "no_tool_calls"
    /\ turn[s].reply = fallback
    /\ turn[s].executed >= 1

(***************************************************************************)
(* C23: a request whose argument payload cannot be decoded is dispatched   *)
(* with empty arguments and does not abort the batch: its result entry is  *)
(* the result of the tool on the empty object, the loop goes on with the   *)
(* next request, and once the batch is done every request of it, before    *)
(* and after the malformed one, has its own result entry.                  *)
(***************************************************************************)
HasMalformed(tool_calls) ==
  \E j \in DOMAIN tool_calls : tool_calls[j].arguments = MALFORMED_JSON

MalformedNeverAborts ==
  /\ [](\A s \in Sessions :
          LET t == turn[s]
              h == memory[s]
              n == Len(t.tool_calls)
          IN (t.pc = "call_model" /\ t.response = "tool_calls" /\ HasMalformed(t.tool_calls))
               => /\ Len(h) > n
                  /\ IsBatchEntry(h[Len(h) - n])
                  /\ \A j \in 1..n :
                       /\ IsResultEntry(h[Len(h) - n + j])
                       /\ h[Len(h) - n + j].tool_call_id = t.tool_calls[j].id
                       /\ t.tool_calls[j].arguments = MALFORMED_JSON
                            => h[Len(h) - n + j].content.kind
                                 \in {"invalid_format", "no_equipment", "equipment_list",
                                      "no_bookings", "bookings", "no_active_bookings",
                                      "active_bookings", "booking_not_found"})
  /\ [][\A s \in Sessions :
          LET t == turn[s]
              tool_call == t.tool_calls[t.k]
          IN (/\ t.pc = "execute"
              /\ turn'[s] # t
              /\ tool_call.arguments = MALFORMED_JSON)
             => /\ memory'[s] =
                     Append(memory[s],
                            [role |-> "tool", tool_call_id |-> tool_call.id,
                             content |-> execute(equipment, bookings, tool_call.name,
                                                 Object(<<>>), FALSE).result])
                /\ turn'[s].executed = t.executed + 1
                /\ t.k < Len(t.tool_calls)
                     => (turn'[s].pc = "execute" /\ turn'[s].k = t.k + 1)]_vars

\* a batch with a malformed request between two well-formed ones has run: the
\* check, the malformed make_booking and the make_booking each have their result
W_MalformedNeverAborts ==
  \E s \in Sessions :
    LET h == memory[s]
    IN /\ turn[s].pc = "call_model"
       /\ Len(turn[s].tool_calls) = 3
       /\ turn[s].tool_calls[2].arguments = MALFORMED_JSON
       /\ Len(h) = 5
       /\ h[3].content.kind = "available"
       /\ h[4].content.kind = "invalid_format"
       /\ h[5].content.kind = "confirmed"

(***************************************************************************)
(* Vocabulary of the properties of check_availability and make_booking.    *)
(***************************************************************************)
\* the resources a name denotes (case-insensitive exact match)
Named(equipment_name) ==
  {i \in DOMAIN equipment : lower(equipment[i].name) = lower(equipment_name)}

\* the date and both times are well formed
WellFormed(a) == a.date = VALID_DATE /\ Len(a.start_time) = 1 /\ Len(a.end_time) = 1

Requested(a) == [start_time |-> a.start_time[1], end_time |-> a.end_time[1]]

\* the active reservations of a resource that overlap the requested interval
Conflicting(equipment_id, a) ==
  {i \in ActiveRows(equipment_id) : HalfOpenOverlap(bookings[i], Requested(a))}

(***************************************************************************)
(* C25 as stated: check_availability resolves the resource before it       *)
(* validates the interval: for a name that matches no resource it reports  *)
(* not-found for every requested interval, also one with end <= start.     *)
(***************************************************************************)
CheckResolvesResourceFirst ==
  \A a \in SlotArgRecords :
    (Named(a.equipment_name) = {} /\ WellFormed(a))
      => check_availability(equipment, bookings, a).result.kind = "not_found"

(***************************************************************************)
(* C25 as amended: check_availability validates the interval before it     *)
(* resolves the resource: for a name that matches no resource it reports   *)
(* the invalid-interval outcome for every interval with end <= start and   *)
(* not-found for every interval with start < end.                          *)
(***************************************************************************)
CheckValidatesIntervalFirst ==
  \A a \in SlotArgRecords :
    (Named(a.equipment_name) = {} /\ WellFormed(a))
      => check_availability(equipment, bookings, a).result.kind
           = (IF Requested(a).end_time <= Requested(a).start_time
              THEN "invalid_interval" ELSE "not_found")

\* a check on a name of no resource reported not-found, on a ledger with a reservation
W_CheckValidatesIntervalFirst ==
  /\ last = [op |-> "check_availability", result |-> "not_found"]
  /\ bookings # <<>>
  /\ \E a \in SlotArgRecords :
       /\ Named(a.equipment_name) = {} /\ WellFormed(a)
       /\ Requested(a).end_time <= Requested(a).start_time

(***************************************************************************)
(* C26: for an existing resource and a valid interval check_availability   *)
(* reports all-units-checked-out iff available = 0 and no active           *)
(* reservation overlaps; available iff available > 0 and none overlaps;    *)
(* otherwise booked, naming the conflicting reservation of smallest start  *)
(* with its holder and the largest end among the conflicting reservations  *)
(* as the next free moment.  Cancelled and returned reservations are no    *)
(* conflicts.                                                              *)
(***************************************************************************)
CheckReportsUnitsAndConflicts ==
  \A a \in SlotArgRecords :
    \A equipment_id \in Named(a.equipment_name) :
      (WellFormed(a) /\ Requested(a).start_time < Requested(a).end_time)
        => LET r == check_availability(equipment, bookings, a).result
               conflicts == Conflicting(equipment_id, a)
               available == equipment[equipment_id].available_quantity
           IN /\ r.kind \in {"all_checked_out", "available", "booked"}
              /\ r.kind = "all_checked_out" <=> (available = 0 /\ conflicts = {})
              /\ r.kind = "available" <=> (available > 0 /\ conflicts = {})
              /\ r.kind = "booked"
                   => /\ \E i \in conflicts :
                           /\ \A j \in conflicts :
                                bookings[i].start_time <= bookings[j].start_time
                           /\ r.from = bookings[i].start_time
                           /\ r.to = bookings[i].end_time
                           /\ r.by = bookings[i].club_name
                      /\ \E i \in conflicts : r.next = bookings[i].end_time
                      /\ \A j \in conflicts : bookings[j].end_time <= r.next

\* a check reported a conflict on a resource with two active reservations, the
\* later-starting one stored first, and a slot that overlaps both
W_CheckReportsUnitsAndConflicts ==
  /\ last = [op |-> "check_availability", result |-> "booked"]
  /\ \E a \in SlotArgRecords :
       \E equipment_id \in Named(a.equipment_name) :
         /\ WellFormed(a)
         /\ \E i, j \in Conflicting(equipment_id, a) :
              i < j /\ bookings[j].start_time < bookings[i].start_time

(***************************************************************************)
(* C27: intervals that only touch do not conflict: with an active          *)
(* reservation [a,b) on a resource that has available > 0 (and no active   *)
(* reservation overlapping the request), check_availability for an         *)
(* interval that starts at b or ends at a reports available and            *)
(* make_booking for it is confirmed and stores the reservation.            *)
(***************************************************************************)
TouchingIsFree ==
  \A a \in BookingArgRecords :
    \A equipment_id \in Named(a.equipment_name) :
      (/\ WellFormed(a)
       /\ Requested(a).start_time < Requested(a).end_time
       /\ equipment[equipment_id].available_quantity > 0
       /\ \E i \in ActiveRows(equipment_id) :
            \/ bookings[i].end_time = Requested(a).start_time
            \/ bookings[i].start_time = Requested(a).end_time
       /\ Conflicting(equipment_id, a) = {})
        => LET slot == [equipment_name |-> a.equipment_name, date |-> a.date,
                        start_time |-> a.start_time, end_time |-> a.end_time]
               made == make_booking(equipment, bookings, a)
           IN /\ check_availability(equipment, bookings, slot).result.kind = "available"
              /\ made.result.kind = "confirmed"
              /\ Len(made.bookings) = Len(bookings) + 1
              /\ made.bookings[Len(made.bookings)].status = "active"
              /\ made.bookings[Len(made.bookings)].start_time = Requested(a).start_time
              /\ made.bookings[Len(made.bookings)].end_time = Requested(a).end_time

\* a reservation was confirmed next to an active reservation of the same resource
\* that ends where it starts
W_TouchingIsFree ==
  /\ last = [op |-> "make_booking", result |-> "confirmed"]
  /\ \E i, j \in DOMAIN bookings :
       /\ i < j
       /\ bookings[i].equipment_id = bookings[j].equipment_id
       /\ bookings[i].status = "active" /\ bookings[j].status = "active"
       /\ bookings[i].end_time = bookings[j].start_time

(***************************************************************************)
(* C28: every reservation ever stored has start < end: make_booking with   *)
(* end <= start reports the invalid-interval outcome and inserts nothing.  *)
(***************************************************************************)
StoredIntervalsOrdered ==
  /\ \A i \in DOMAIN bookings : bookings[i].start_time < bookings[i].end_time
  /\ \A a \in BookingArgRecords :
       (WellFormed(a) /\ Requested(a).end_time <= Requested(a).start_time)
         => LET made == make_booking(equipment, bookings, a)
            IN /\ made.result.kind = "invalid_interval"
               /\ made.bookings = bookings
               /\ made.equipment = equipment

\* a make_booking with end <= start was refused on a ledger that holds a reservation
W_StoredIntervalsOrdered ==
  /\ last = [op |-> "make_booking", result |-> "invalid_interval"]
  /\ bookings # <<>>

(***************************************************************************)
(* C29: list_equipment, check_availability, get_bookings and               *)
(* get_active_bookings leave both tables unchanged for every input: an     *)
(* available count or a reservation's status changes only in a step of     *)
(* make_booking, cancel_booking or return_equipment.                       *)
(***************************************************************************)
ReadsChangeNothing ==
  /\ [](/\ list_equipment(equipment, bookings).equipment = equipment
        /\ list_equipment(equipment, bookings).bookings = bookings
        /\ get_active_bookings(equipment, bookings).equipment = equipment
        /\ get_active_bookings(equipment, bookings).bookings = bookings
        /\ \A a \in SlotArgRecords :
             /\ check_availability(equipment, bookings, a).equipment = equipment
             /\ check_availability(equipment, bookings, a).bookings = bookings
        /\ \A club_name \in ClubNameArgs :
             /\ get_bookings(equipment, bookings, club_name).equipment = equipment
             /\ get_bookings(equipment, bookings, club_name).bookings = bookings)
  /\ [][/\ last'.op \in {"list_equipment", "check_availability", "get_bookings",
                         "get_active_bookings"}
             => (equipment' = equipment /\ bookings' = bookings)
        /\ (equipment' # equipment \/ bookings' # bookings)
             => last'.op \in {"make_booking", "cancel_booking", "return_equipment"}]_vars

\* the resources were listed while one unit is out and one reservation is cancelled
W_ReadsChangeNothing ==
  /\ last = [op |-> "list_equipment", result |-> "equipment_list"]
  /\ \E i \in DOMAIN equipment :
       equipment[i].available_quantity < equipment[i].total_quantity
  /\ \E i \in DOMAIN bookings : bookings[i].status = "cancelled"

(***************************************************************************)
(* C30: all seven arguments of make_booking are required: a make_booking   *)
(* request dispatched through ToolExecutor.execute with any one of the     *)
(* seven arguments absent inserts no reservation and changes no available  *)
(* count.                                                                  *)
(***************************************************************************)
AllSevenRequired ==
  [][\A key \in REQUIRED :
       LET out == execute(equipment, bookings, "make_booking",
                          Object(Without(CompleteBooking, key)), FALSE)
       IN (/\ last'.op = "make_booking"
           /\ bookings' = out.bookings
           /\ equipment' = out.equipment)
          => (bookings' = bookings /\ equipment' = equipment)]_vars

(***************************************************************************)
(* C24: when a storage statement of make_booking, cancel_booking or        *)
(* return_equipment fails at any step (also the COMMIT), the call returns  *)
(* the internal-error text and both tables are as they were before the     *)
(* call: the failing step changes no committed row, and no step of a call  *)
(* other than its successful COMMIT does.                                  *)
(***************************************************************************)
FaultRollsBack ==
  [][\A s \in FaultSessions :
       /\ (AtStatement(tx[s]) /\ tx'[s].pc = "done"
             /\ tx'[s].result \notin {"confirmed", "cancelled", "returned"})
            => /\ equipment' = equipment
               /\ bookings' = bookings
               /\ tx'[s].result \in {"internal_error", "not_found", "all_checked_out",
                                     "already_booked", "booking_not_found", "already"}
       /\ (equipment' # equipment \/ bookings' # bookings)
            => /\ tx[s].pc = "commit"
               /\ tx'[s].result \in {"confirmed", "cancelled", "returned"}]_vars

\* a make_booking failed at its flush or COMMIT, after its identifier was assigned,
\* on a ledger that holds a reservation
W_FaultRollsBack ==
  \E s \in FaultSessions :
    /\ tx[s].pc = "done"
    /\ tx[s].op = "make_booking"
    /\ tx[s].result = "internal_error"
    /\ tx[s].booking_id # <<>>
    /\ bookings # <<>>

(***************************************************************************)
(* Vocabulary of the transport properties.                                 *)
(***************************************************************************)
IsPrefix(h, g) == Len(h) <= Len(g) /\ SubSeq(g, 1, Len(h)) = h

UserText(content) == [role |-> "user", content |-> content]

(***************************************************************************)
(* C31: a turn only appends to the transcript of its own session.  In      *)
(* every step, also when turns of different sessions are in flight         *)
(* together, a session's transcript either stays as it is, or is extended  *)
(* at its end by a statement of that session's own turn, or is emptied by  *)
(* an explicit clear; and the first entry a turn appends is the user text, *)
(* appended before the model is called.                                    *)
(***************************************************************************)
TurnAppendsOwnTranscript ==
  [][\A s \in Sessions :
       /\ \/ memory'[s] = memory[s]
          \/ /\ turn'[s] # turn[s]
             /\ turn[s].pc \in {"start", "call_model", "execute"}
             /\ \A o \in Sessions \ {s} : turn'[o] = turn[o]
             /\ IsPrefix(memory[s], memory'[s])
          \/ /\ memory'[s] = <<>>
             /\ turn' = turn
       /\ turn[s].pc = "start" /\ turn'[s].pc = "call_model"
            => /\ memory'[s] = Append(memory[s], UserText(turn[s].user_message))
               /\ turn'[s].model_calls = 0
       /\ turn'[s].model_calls > turn[s].model_calls => turn[s].pc = "call_model"]_vars

\* the turns of both sessions are executing a batch; one of them started on the
\* transcript of an earlier turn, which is still the prefix of its transcript,
\* followed by the user text and the batch
W_TurnAppendsOwnTranscript ==
  \E s, o \in Sessions :
    /\ s # o
    /\ turn[s].pc = "execute" /\ turn[o].pc = "execute"
    /\ Len(memory[s]) = 4
    /\ <<memory[s][1], memory[s][2]>> \in EarlierTranscripts
    /\ memory[s][3] = UserText(turn[s].user_message)
    /\ IsBatchEntry(memory[s][4])
    /\ Len(memory[o]) >= 2
    /\ IsBatchEntry(LastEntry(memory[o]))

(***************************************************************************)
(* C32: within a session the transcript is well formed in every reachable  *)
(* state, also when /clear empties it while a turn of the session is in    *)
(* flight: every result entry is preceded by a batch entry that contains   *)
(* its id, with nothing but result entries between the two.                *)
(***************************************************************************)
TranscriptWellFormed ==
  \A s \in Sessions :
    LET h == memory[s]
    IN \A i \in DOMAIN h :
         IsResultEntry(h[i])
           => \E j \in 1..i - 1 :
                /\ IsBatchEntry(h[j])
                /\ \E c \in DOMAIN h[j].tool_calls :
                     h[j].tool_calls[c].id = h[i].tool_call_id
                /\ \A k \in j + 1..i - 1 : IsResultEntry(h[k])

(***************************************************************************)
(* C33: check_availability and make_booking agree when nothing is written  *)
(* in between: on every ledger state, for every resource name and          *)
(* interval, make_booking confirms if and only if check_availability with  *)
(* the same name and interval, evaluated on the same state, reports the    *)
(* slot available.                                                         *)
(***************************************************************************)
SlotOf(a) ==
  [equipment_name |-> a.equipment_name, date |-> a.date,
   start_time |-> a.start_time, end_time |-> a.end_time]

CreateAgreesWithCheck ==
  \A a \in BookingArgRecords :
    make_booking(equipment, bookings, a).result.kind = "confirmed"
      <=> check_availability(equipment, bookings, SlotOf(a)).result.kind = "available"

\* a reservation was just confirmed, and on the ledger it leaves some request is
\* refused by both for want of a unit, another by both for a conflict, and a
\* third is confirmed by the one and reported available by the other
W_CreateAgreesWithCheck ==
  /\ \E s \in Sessions : Confirmed(tx[s])
  /\ \E a \in BookingArgRecords :
       /\ make_booking(equipment, bookings, a).result.kind = "all_checked_out"
       /\ check_availability(equipment, bookings, SlotOf(a)).result.kind = "all_checked_out"
  /\ \E a \in BookingArgRecords :
       /\ make_booking(equipment, bookings, a).result.kind = "already_booked"
       /\ check_availability(equipment, bookings, SlotOf(a)).result.kind = "booked"
  /\ \E a \in BookingArgRecords :
       /\ make_booking(equipment, bookings, a).result.kind = "confirmed"
       /\ check_availability(equipment, bookings, SlotOf(a)).result.kind = "available"

(***************************************************************************)
(* C34: no two stored reservations share an identifier, also when          *)
(* make_booking calls run concurrently: of the calls that computed the     *)
(* same next identifier at most one commits, and a call whose INSERT meets *)
(* a stored row of its identifier ends with the internal error, having     *)
(* inserted no row and changed no available count.                         *)
(***************************************************************************)
DistinctIdentifiers(bks) ==
  \A i, j \in DOMAIN bks : i # j => bks[i].booking_id # bks[j].booking_id

LostOnIdentifier(t) ==
  /\ t.op = "make_booking" /\ t.pc = "done" /\ t.result = "internal_error"
  /\ t.booking_id # <<>>

IdentifiersNeverShared ==
  [][/\ DistinctIdentifiers(bookings')
     /\ \A s \in Sessions :
          /\ (tx[s].op = "make_booking" /\ tx[s].pc = "flush" /\ tx'[s] # tx[s]
                /\ UniqueViolation(bookings, tx[s].booking_id))
               => /\ LostOnIdentifier(tx'[s])
                  /\ bookings' = bookings
                  /\ equipment' = equipment
          /\ (~LostOnIdentifier(tx[s]) /\ LostOnIdentifier(tx'[s]))
               => /\ UniqueViolation(bookings, tx'[s].booking_id)
                  /\ bookings' = bookings
                  /\ equipment' = equipment
          /\ \A o \in Sessions \ {s} :
               (Confirmed(tx'[s]) /\ Confirmed(tx'[o]))
                 => tx'[s].booking_id # tx'[o].booking_id]_vars

\* two concurrent calls computed the same identifier: one is confirmed and its row
\* is the only one of that identifier, the other ended with the internal error
W_IdentifiersNeverShared ==
  \E s, o \in Sessions :
    /\ s # o
    /\ Confirmed(tx[o])
    /\ LostOnIdentifier(tx[s])
    /\ tx[s].booking_id = tx[o].booking_id
    /\ Cardinality({i \in DOMAIN bookings : bookings[i].booking_id = tx[s].booking_id}) = 1

(***************************************************************************)
(* C35: concurrent make_booking calls that target different resources,     *)
(* each with a unit available and no conflicting reservation, do not make  *)
(* each other fail: both are confirmed, with distinct identifiers.         *)
(***************************************************************************)
\* the call passed the unit test and the conflict test and computed its identifier
PassedChecks(t) == t.op = "make_booking" /\ t.pc = "done" /\ t.booking_id # <<>>

DifferentResourcesBothSucceed ==
  \A s, o \in Sessions :
    (s # o /\ PassedChecks(tx[s]) /\ PassedChecks(tx[o])
       /\ tx[s].equipment_id # tx[o].equipment_id)
      => /\ Confirmed(tx[s])
         /\ Confirmed(tx[o])
         /\ tx[s].booking_id # tx[o].booking_id

(***************************************************************************)
(* C36: every turn on non-empty user text ends, on each of its exit paths  *)
(* (final answer, model failure, unexpected response, iteration cap), by   *)
(* appending exactly one assistant text entry: while the turn runs the     *)
(* transcript holds no assistant text, and when it has returned the reply  *)
(* is the path's text, and the one assistant text entry of the transcript  *)
(* holds that reply and is the transcript's last entry.                    *)
(***************************************************************************)
AssistantTexts(h) == {i \in DOMAIN h : h[i].role = "assistant" /\ ~IsBatchEntry(h[i])}

ReplyOfPath(t) ==
  CASE t.response = "stop" -> {ReplyOf(content) : content \in ContentArgs}
    [] t.response = "error" -> {error_msg}
    [] t.response = "tool_calls" -> {timeout_msg}
    [] OTHER -> {fallback}

TurnEndsWithOneReply ==
  \A s \in Sessions :
    LET t == turn[s]
        h == memory[s]
    IN /\ t.pc \in {"call_model", "execute"} => AssistantTexts(h) = {}
       /\ (t.pc = "done" /\ ~IsEmpty(t.user_message))
            => /\ t.reply \in ReplyOfPath(t)
               /\ AssistantTexts(h) = {Len(h)}
               /\ LastEntry(h) = AssistantText(t.reply)

\* a turn has left by the last of the exits: after the batch of its tenth model
\* response it returned the timeout text, which is the transcript's last entry
W_TurnEndsWithOneReply ==
  \E s \in Sessions :
    /\ turn[s].pc = "done"
    /\ turn[s].reply = timeout_msg
    /\ turn[s].model_calls = max_tool_iterations
    /\ Len(memory[s]) >= 2 * max_tool_iterations + 2
    /\ LastEntry(memory[s]) = AssistantText(timeout_msg)

====
